---- MODULE Spec2Model ----
(***************************************************************************)
(* A model of the Janitor moderation bot (defnot001/janitorrust):          *)
(*   - the per-user report lock            (src/util/locks.rs)             *)
(*   - the report / deactivate commands    (src/commands/badactor.rs)      *)
(*   - the honeypot sliding-window detector (src/honeypot/message.rs)      *)
(*   - the moderation decision engine      (src/broadcast/moderate.rs)     *)
(* Each subsystem has its own specification over the shared variables.     *)
(***************************************************************************)
EXTENDS Integers, Sequences, FiniteSets, TLC

\* ------------------------------------------------------------------ bounds
NumCallers == 4      \* tasks that call lock_user_id
MaxId      == 3      \* lock generations NEXT_ID may hand out
NumReporters == 2    \* callers that run the report command
NumHoneypot == 1     \* honeypot handlers that reached maybe_report_bad_actor
MaxRows    == 2      \* rows the bad_actors table may get
MaxMsgs    == 4      \* messages the honeypot queue may be handed
MaxTime    == 60     \* seconds the clock may reach
MaxInflight == 1     \* messages classified and not yet queued

\* ------------------------------------------------------------- environment
\* Worker threads of the multi-threaded tokio runtime that #[tokio::main]
\* builds (one per core by default); every polled task occupies one.
NumWorkers == 2
\* The user ids modelled are ids that DashMap hashes into the same shard.
NumShards  == 1

Callers == 1..NumCallers
Users   == {1, 2}
Shards  == 0..(NumShards - 1)
Ids     == 0..(MaxId - 1)
None    == -1
Reporters == 1..NumReporters
HpTasks == 1..NumHoneypot

\* The DashMap shard a key hashes to.
ShardOf(u) == u % NumShards

\* --------------------------------------------------------------- variables
VARIABLES
  pc,       \* position of every task
  target,   \* the user id a task's call is about
  arc,      \* the Arc<Mutex<SelfRemoving>> a task owns a strong reference to (its id)
  locks,    \* LOCKS: user id -> id of the LockValue stored, or None
  nextId,   \* NEXT_ID
  owner,    \* per mutex: the task that has the semaphore permit, or None
  waitq,    \* per mutex: FIFO queue of suspended lock_owned() futures
  shard,    \* per DashMap shard: the task holding its write guard, or None
  db,       \* the bad_actors table: row id (index) -> [user, active, type, by]
  bcast,    \* the broadcasts made: <<row id, BroadcastType>>
  reply,    \* what the report command told its invoker
  row,      \* the id of the BadActor a report command created
  hpc,      \* position of every honeypot handler in maybe_report_bad_actor
  hp,       \* per honeypot handler: [user, row]
  dpc,      \* position of the deactivate command
  drow,     \* the report id the deactivate command was given
  queue,    \* Data.queue: the Vec<HoneypotMessage> behind the mutex
  clock,    \* Instant::now(), in seconds
  honeypot_channels,  \* Data.honeypot_channels: the in-memory DashSet
  dbHoneypot,  \* server_configs.honeypot_channel_id of every guild
  inflight, \* messages handle_message has classified and not yet queued
  removed,  \* what remove_old_messages returned last
  reported, \* what should_report returned last
  evictions, \* per message: how often remove_old_messages returned it
  nextMsg,  \* messages pushed so far
  rpc,      \* position of the command that changes a honeypot channel
  mpc,      \* position of a call of moderate
  modIn,    \* its ModerateOptions: broadcast type, bad actor, listener config
  world,    \* what is true in the listener guild: is the target a member, its roles
  action_level,  \* the resolved ActionLevel
  member,   \* what guild.member(...).await.ok() gave
  enforced, \* the Discord call made on the target: none, timeout, kick, softban, ban
  reason,   \* the reason passed to ban_with_reason
  informed, \* the informational message sent to the log channel instead
  calls,    \* the requests made to Discord that change the guild, in order
  posted,   \* whether a message of this call arrived in the log channel
  central,  \* whether an error went to the central logger
  mutated,  \* whether the requests that change the guild all succeeded
  sent,     \* whether a message to the log channel was attempted
  lpc,      \* position of a call of get_valid_listeners
  ltable,   \* the server_configs table it reads: per guild the kind of row
  lfacts,   \* per guild: what its log channel is and whether hydration worked
  registry, \* the result: "none" (running), "err" or "ok"
  listeners, \* the guilds of the BroadcastListeners collected
  lwarned,  \* the guilds skipped with a warning
  wpc,      \* position of a call of broadcast_to_webhooks
  wtable,   \* the webhooks table it reads: per row the kind of URL
  wquery,   \* whether its SELECT worked
  wgood,    \* the rows get_discord_webhooks turned into a Webhook
  wexec,    \* per row: how often its webhook was executed
  wlogged,  \* the rows an error was logged for
  spc,      \* position of a call of send_broadcast_message
  sendIn,   \* its options and the whitelist its listener was hydrated from
  slevel,   \* the action level it resolved
  smessage, \* the message it built
  sdelivered, \* whether the message arrived in the log channel
  bpc,      \* position of a call of broadcast
  bIn,      \* its options and the facts of the guilds it reads
  badmin,   \* the send to the admin server: none, sending, done
  bdm,      \* the direct message to the target: none, sending, done
  bfinished, \* per listener: its sub-tasks that have finished
  bfailed,  \* the requests of this broadcast that failed
  blog,     \* per log channel: the messages that arrived
  bbanned,  \* the guilds the target was banned from
  mfor,     \* the listener whose call of moderate is running
  wfor,     \* the listener whose call of broadcast_to_webhooks is running
  tpc,      \* position of a call of timeout_honeypot_trolls
  tmsgs,    \* the evicted honeypot messages it was given
  tworld,   \* per guild: its server_configs row
  tconfigs, \* the guilds whose configuration the queries returned
  tnext,    \* the message the loop is at
  ttimeouts, \* per message: the timeouts applied for it, in minutes
  tposts,   \* per message: the result messages that arrived in the log channel
  imessage, \* the message the buttons are on: its embeds and whether it has components
  ipc,      \* position of the handler of every button click
  iIn,      \* per click: the custom id and the clicking member's permissions
  idid,     \* per click: what its handler did
  whitelist,      \* table users: the servers of every whitelisted user ({}: no row)
  server_configs, \* table server_configs: the guilds that have a row
  scpc,         \* position of every call of create_or_increase_scoreboards
  sres,         \* per call: user_res and guild_res are Ok
  conn,         \* per pool connection: transaction state and uncommitted increments
  user_scores,  \* committed score of the reporter in user_scores (0: no row)
  guild_scores, \* committed score of the guild in guild_scores (0: no row)
  returned_ok,  \* calls that returned Ok
  returned_err, \* calls that returned Err
  ppc,          \* parse_snowflake: "idle" or "parsed"
  psrc,         \* the string passed to parse_snowflake, as its characters
  pres,         \* what parse_snowflake returned
  qpc,         \* position of every handle_message call
  qmsg,        \* per call: the message, classified on entry
  qowner,      \* the call that holds the queue mutex, or None
  qnow,        \* per call: Instant::now() taken under the mutex
  hqueue,      \* the queue as the calls under the mutex see it
  qremoved,    \* per call: removed_honeypot_messages
  qrep,        \* per call: should_report
  qlog,        \* the calls in the order of their push, with what they computed
  qclock,      \* the time
  qchannels,   \* honeypot_channels as the calls see it
  qrpc,        \* position of populate_honeypot_channels
  wtotal,      \* per webhook row: the executions during the current broadcast
  fpc,         \* position of FileManager::save
  fIn,         \* the attachment, the user and what download and write will answer
  fres,        \* the Result save returned
  files,       \* the files in screenshots/
  upc,         \* position of every config update command
  uIn,         \* the options a command was given
  uprev,       \* the row its SELECT read
  ureply,      \* what it told its invoker
  crow         \* the server_configs row of the guild

lockVars == <<pc, target, arc, locks, nextId, owner, waitq, shard>>
dbVars == <<db, bcast, reply, row, hpc, hp, dpc, drow>>
hpVars == <<queue, clock, honeypot_channels, dbHoneypot, inflight, removed,
            reported, evictions, nextMsg, rpc>>
modVars == <<mpc, modIn, world, action_level, member, enforced, reason, informed,
             calls, posted, central, mutated, sent>>
regVars == <<lpc, ltable, lfacts, registry, listeners, lwarned>>
whVars == <<wpc, wtable, wquery, wgood, wexec, wlogged>>
sendVars == <<spc, sendIn, slevel, smessage, sdelivered>>
bcVars == <<bpc, bIn, badmin, bdm, bfinished, bfailed, blog, bbanned, mfor, wfor>>
trollVars == <<tpc, tmsgs, tworld, tconfigs, tnext, ttimeouts, tposts>>
btnVars == <<imessage, ipc, iIn, idid>>
cmdVars == <<whitelist, server_configs>>
scoreVars == <<scpc, sres, conn, user_scores, guild_scores, returned_ok, returned_err>>
parseVars == <<ppc, psrc, pres>>
qVars == <<qpc, qmsg, qowner, qnow, hqueue, qremoved, qrep, qlog, qclock, qchannels, qrpc>>
tallyVars == <<wtotal>>
fileVars == <<fpc, fIn, fres, files>>
updVars == <<upc, uIn, uprev, ureply, crow>>
vars == <<pc, target, arc, locks, nextId, owner, waitq, shard,
          db, bcast, reply, row, hpc, hp, dpc, drow,
          queue, clock, honeypot_channels, dbHoneypot, inflight, removed,
          reported, evictions, nextMsg, rpc,
          mpc, modIn, world, action_level, member, enforced, reason, informed,
          calls, posted, central, mutated, sent,
          lpc, ltable, lfacts, registry, listeners, lwarned,
          wpc, wtable, wquery, wgood, wexec, wlogged,
          spc, sendIn, slevel, smessage, sdelivered,
          bpc, bIn, badmin, bdm, bfinished, bfailed, blog, bbanned, mfor, wfor,
          tpc, tmsgs, tworld, tconfigs, tnext, ttimeouts, tposts,
          imessage, ipc, iIn, idid, whitelist, server_configs,
          scpc, sres, conn, user_scores, guild_scores, returned_ok, returned_err,
          ppc, psrc, pres,
          qpc, qmsg, qowner, qnow, hqueue, qremoved, qrep, qlog, qclock, qchannels, qrpc,
          wtotal,
          fpc, fIn, fres, files,
          upc, uIn, uprev, ureply, crow>>

\* ------------------------------------------------------------ lock helpers
\* Tasks that are being polled right now: each occupies one worker thread.
\* A task at "entry" or "dtor" may be parked on a shard guard and keeps its thread.
RunningPcs == {"entry", "lock", "exit", "drop_arc", "dtor"}
Running == {t \in Callers : pc[t] \in RunningPcs}

\* A suspended task can only be polled when a worker thread is free.
FreeWorker == Cardinality(Running) < NumWorkers

\* Mutant: the weak reference of a live mutex fails to upgrade.
UpgradableNever(m) == FALSE

\* Strong count of mutex m is positive: Weak::upgrade succeeds.
\* (a task at "dtor" has already given up the last strong reference and only
\* remembers the id of the SelfRemoving it is destroying).
Upgradable(m) == \E t \in Callers : arc[t] = m /\ pc[t] # "dtor"

\* The shard guard is free (DashMap::entry / remove_if can take it).
ShardFree(u) == shard[ShardOf(u)] = None

\* Dropping an OccupiedEntry at the end of the match arm frees the shard guard.
ReleaseShardOf(t) == [s \in Shards |-> IF shard[s] = t THEN None ELSE shard[s]]

InitLockVars ==
  /\ pc = [t \in Callers |-> "idle"]
  /\ target = [t \in Callers |-> None]
  /\ arc = [t \in Callers |-> None]
  /\ locks = [u \in Users |-> None]
  /\ nextId = 0
  /\ owner = [m \in Ids |-> None]
  /\ waitq = [m \in Ids |-> <<>>]
  /\ shard = [s \in Shards |-> None]

\* ---------------------------------------------------------- lock_user_id
\* A task is polled and calls lock_user_id(u): it is now inside locks().entry(u).
Call(t, u) ==
  /\ pc[t] = "idle"
  /\ FreeWorker
  /\ nextId + Cardinality({o \in Callers : pc[o] = "entry"}) < MaxId
  /\ pc' = [pc EXCEPT ![t] = "entry"]
  /\ target' = [target EXCEPT ![t] = u]
  /\ UNCHANGED <<arc, locks, nextId, owner, waitq, shard>>

\* Entry::Vacant: LockValue::new, entry.insert (which consumes the entry and
\* frees the shard guard); the await on the new mutex follows.
EntryVacant(t) ==
  /\ pc[t] = "entry"
  /\ ShardFree(target[t])
  /\ locks[target[t]] = None
  /\ locks' = [locks EXCEPT ![target[t]] = nextId]
  /\ arc' = [arc EXCEPT ![t] = nextId]
  /\ nextId' = nextId + 1
  /\ pc' = [pc EXCEPT ![t] = "lock"]
  /\ UNCHANGED <<target, owner, waitq, shard>>

\* Entry::Occupied, weak.upgrade() is Some: the entry (and with it the shard
\* guard) stays alive across the await on the upgraded mutex.
EntryOccupiedAlive(t) ==
  /\ pc[t] = "entry"
  /\ ShardFree(target[t])
  /\ locks[target[t]] # None
  /\ Upgradable(locks[target[t]])
  /\ arc' = [arc EXCEPT ![t] = locks[target[t]]]
  /\ shard' = [shard EXCEPT ![ShardOf(target[t])] = t]
  /\ pc' = [pc EXCEPT ![t] = "lock"]
  /\ UNCHANGED <<target, locks, nextId, owner, waitq>>

\* Entry::Occupied, weak.upgrade() is None: a new LockValue replaces the dead
\* one; the entry stays alive across the await on the new mutex.
EntryOccupiedDead(t) ==
  /\ pc[t] = "entry"
  /\ ShardFree(target[t])
  /\ locks[target[t]] # None
  /\ ~Upgradable(locks[target[t]])
  /\ locks' = [locks EXCEPT ![target[t]] = nextId]
  /\ arc' = [arc EXCEPT ![t] = nextId]
  /\ nextId' = nextId + 1
  /\ shard' = [shard EXCEPT ![ShardOf(target[t])] = t]
  /\ pc' = [pc EXCEPT ![t] = "lock"]
  /\ UNCHANGED <<target, owner, waitq>>

\* First poll of lock_owned(): the permit is free, the guard is returned and
\* the match arm ends (dropping an Occupied entry).
LockNow(t) ==
  /\ pc[t] = "lock"
  /\ owner[arc[t]] = None
  /\ owner' = [owner EXCEPT ![arc[t]] = t]
  /\ shard' = ReleaseShardOf(t)
  /\ pc' = [pc EXCEPT ![t] = "held"]
  /\ UNCHANGED <<target, arc, locks, nextId, waitq>>

\* First poll of lock_owned(): the mutex is taken, the future queues itself
\* and the task is suspended (an Occupied entry is still alive).
LockWait(t) ==
  /\ pc[t] = "lock"
  /\ owner[arc[t]] # None
  /\ waitq' = [waitq EXCEPT ![arc[t]] = Append(@, t)]
  /\ pc' = [pc EXCEPT ![t] = "waiting"]
  /\ UNCHANGED <<target, arc, locks, nextId, owner, shard>>

\* The woken waiter is polled again: it was handed the permit, the guard is
\* returned and the match arm ends.
Wake(t) ==
  /\ pc[t] = "waiting"
  /\ owner[arc[t]] = t
  /\ FreeWorker
  /\ shard' = ReleaseShardOf(t)
  /\ pc' = [pc EXCEPT ![t] = "held"]
  /\ UNCHANGED <<target, arc, locks, nextId, owner, waitq>>

\* The caller of lock_user_id is polled for the last time and reaches the end
\* of the scope of its guard.
UseGuard(t) ==
  /\ pc[t] = "held"
  /\ FreeWorker
  /\ pc' = [pc EXCEPT ![t] = "exit"]
  /\ UNCHANGED <<target, arc, locks, nextId, owner, waitq, shard>>

\* OwnedMutexGuard::drop: the permit goes back to the semaphore, which hands
\* it to the first queued waiter.
DropGuard(t) ==
  /\ pc[t] = "exit"
  /\ arc[t] # None
  /\ owner' = [owner EXCEPT ![arc[t]] =
                 IF waitq[arc[t]] = <<>> THEN None ELSE Head(waitq[arc[t]])]
  /\ waitq' = [waitq EXCEPT ![arc[t]] = IF @ = <<>> THEN @ ELSE Tail(@)]
  /\ pc' = [pc EXCEPT ![t] = "drop_arc"]
  /\ UNCHANGED <<target, arc, locks, nextId, shard>>

\* The guard's Arc is dropped; the last strong reference goes on to run the
\* destructor of SelfRemoving.
DropArc(t) ==
  /\ pc[t] = "drop_arc"
  /\ IF \E o \in Callers \ {t} : arc[o] = arc[t]
       THEN /\ arc' = [arc EXCEPT ![t] = None]
            /\ pc' = [pc EXCEPT ![t] = "idle"]
            /\ target' = [target EXCEPT ![t] = None]
       ELSE /\ arc' = arc
            /\ pc' = [pc EXCEPT ![t] = "dtor"]
            /\ target' = target
  /\ UNCHANGED <<locks, nextId, owner, waitq, shard>>

\* Mutant: the destructor leaves the map entry in place.
RemoveIfNever(u, id) == locks

\* Mutant: the destructor removes whatever entry the user id has.
RemoveIfAlways(u, id) == [locks EXCEPT ![u] = None]

\* remove_if(&user_id, |_, value| value.id == self.id)
RemoveIf(u, id) == [locks EXCEPT ![u] = IF @ = id THEN None ELSE @]

\* impl Drop for SelfRemoving: takes the shard guard, removes the map entry
\* when it still stores this generation's id.
Dtor(t) ==
  /\ pc[t] = "dtor"
  /\ ShardFree(target[t])
  /\ locks' = RemoveIf(target[t], arc[t])
  /\ arc' = [arc EXCEPT ![t] = None]
  /\ pc' = [pc EXCEPT ![t] = "idle"]
  /\ target' = [target EXCEPT ![t] = None]
  /\ UNCHANGED <<nextId, owner, waitq, shard>>

LockStep(t) ==
  \/ EntryVacant(t)
  \/ EntryOccupiedAlive(t)
  \/ EntryOccupiedDead(t)
  \/ LockNow(t)
  \/ LockWait(t)
  \/ Wake(t)
  \/ DropGuard(t)
  \/ DropArc(t)
  \/ Dtor(t)

\* ------------------------------------------------- the bad_actors table
\* Mutant: a failed query counts as an active case (unwrap_or(true)).
HasActiveCaseOrFailed(u, queryOk) ==
  ~queryOk \/ \E i \in 1..Len(db) : db[i].user = u /\ db[i].active

\* BadActorModelController::has_active_case: a failed query counts as
\* "no active case" (unwrap_or(false)).
HasActiveCase(u, queryOk) ==
  queryOk /\ \E i \in 1..Len(db) : db[i].user = u /\ db[i].active

\* BadActorModelController::create: INSERT ... RETURNING *; is_active is not
\* bound and takes the column default (an active case).
CreateRow(u, type, by) == Append(db, [user |-> u, active |-> TRUE, type |-> type, by |-> by])

\* BadActorModelController::deavtivate: UPDATE ... SET is_active = false WHERE id = $1
DeactivateRow(id) == [db EXCEPT ![id].active = FALSE]

\* Tasks that may still insert a row; starting a new one needs room in the table.
Creators ==
  Cardinality({t \in Reporters : pc[t] # "idle"}) + Cardinality({h \in HpTasks : hpc[h] # "idle"})
RoomForRow == Len(db) + Creators < MaxRows

BotId == 0
ReportTypes == {"Spam"}

InitDbVars ==
  /\ db = <<>>
  /\ bcast = {}
  /\ reply = [t \in Callers |-> "none"]
  /\ row = [t \in Callers |-> None]
  /\ hpc = [h \in HpTasks |-> "idle"]
  /\ hp = [h \in HpTasks |-> [user |-> None, row |-> None]]
  /\ dpc = "idle"
  /\ drow = None

\* ------------------------------------------------------ the report command
\* report: defer, guild and whitelist checks and the screenshot/explanation
\* check passed; the command calls lock_user_id(target_user.id).
ReportStart(t, u) ==
  /\ RoomForRow
  /\ Call(t, u)
  /\ reply' = [reply EXCEPT ![t] = "none"]
  /\ row' = [row EXCEPT ![t] = None]
  /\ UNCHANGED <<db, bcast, hpc, hp, dpc, drow>>

\* Mutant: the early return for an active case skips the release of the guard.
ReportCheckLeaks(t, queryOk, sendOk) ==
  /\ pc[t] = "held"
  /\ FreeWorker
  /\ IF HasActiveCase(target[t], queryOk)
       THEN /\ pc' = [pc EXCEPT ![t] = "drop_arc"]
            /\ reply' = [reply EXCEPT ![t] = "active_case"]
       ELSE IF sendOk
         THEN /\ pc' = [pc EXCEPT ![t] = "collect"]
              /\ reply' = [reply EXCEPT ![t] = "confirm?"]
         ELSE /\ pc' = [pc EXCEPT ![t] = "exit"]
              /\ reply' = [reply EXCEPT ![t] = "error"]
  /\ UNCHANGED <<target, arc, locks, nextId, owner, waitq, shard>>
  /\ UNCHANGED <<db, bcast, row, hpc, hp, dpc, drow>>

\* The guard is held; has_active_case answers. An active case ends the command
\* with the "already has an active case" reply; otherwise the confirm/cancel
\* message is sent (a failed send ends the command with the error).
ReportCheck(t, queryOk, sendOk) ==
  /\ pc[t] = "held"
  /\ FreeWorker
  /\ IF HasActiveCase(target[t], queryOk)
       THEN /\ pc' = [pc EXCEPT ![t] = "exit"]
            /\ reply' = [reply EXCEPT ![t] = "active_case"]
       ELSE IF sendOk
         THEN /\ pc' = [pc EXCEPT ![t] = "collect"]
              /\ reply' = [reply EXCEPT ![t] = "confirm?"]
         ELSE /\ pc' = [pc EXCEPT ![t] = "exit"]
              /\ reply' = [reply EXCEPT ![t] = "error"]
  /\ UNCHANGED <<target, arc, locks, nextId, owner, waitq, shard>>
  /\ UNCHANGED <<db, bcast, row, hpc, hp, dpc, drow>>

\* get_component_collector returns: a click on Confirm or Cancel, or nothing
\* (120 seconds passed, or another component); handle_collector answers a
\* click and, for Confirm, saves the screenshot (either may fail).
ReportCollect(t, click, ok) ==
  /\ pc[t] = "collect"
  /\ FreeWorker
  /\ \/ /\ click = "none"
        /\ pc' = [pc EXCEPT ![t] = "exit"]
        /\ reply' = [reply EXCEPT ![t] = "expired"]
     \/ /\ click = "cancel"
        /\ pc' = [pc EXCEPT ![t] = "exit"]
        /\ reply' = [reply EXCEPT ![t] = IF ok THEN "cancelled" ELSE "error"]
     \/ /\ click = "confirm"
        /\ pc' = [pc EXCEPT ![t] = IF ok THEN "create" ELSE "exit"]
        /\ reply' = [reply EXCEPT ![t] = IF ok THEN "reporting" ELSE "error"]
  /\ UNCHANGED <<target, arc, locks, nextId, owner, waitq, shard>>
  /\ UNCHANGED <<db, bcast, row, hpc, hp, dpc, drow>>

\* save_bad_actor: BadActorModelController::create; an error ends the command.
ReportCreate(t, type, ok) ==
  /\ pc[t] = "create"
  /\ FreeWorker
  /\ IF ok
       THEN /\ db' = CreateRow(target[t], type, t)
            /\ row' = [row EXCEPT ![t] = Len(db) + 1]
            /\ pc' = [pc EXCEPT ![t] = "broadcast"]
            /\ reply' = reply
       ELSE /\ pc' = [pc EXCEPT ![t] = "exit"]
            /\ reply' = [reply EXCEPT ![t] = "error"]
            /\ UNCHANGED <<db, row>>
  /\ UNCHANGED <<target, arc, locks, nextId, owner, waitq, shard>>
  /\ UNCHANGED <<bcast, hpc, hp, dpc, drow>>

\* The scores are updated, broadcast_handler::broadcast runs with
\* BroadcastType::Report and the success reply is sent.
ReportBroadcast(t, ok) ==
  /\ pc[t] = "broadcast"
  /\ FreeWorker
  /\ bcast' = bcast \cup {<<row[t], "Report">>}
  /\ pc' = [pc EXCEPT ![t] = "exit"]
  /\ reply' = [reply EXCEPT ![t] = IF ok THEN "success" ELSE "error"]
  /\ UNCHANGED <<target, arc, locks, nextId, owner, waitq, shard>>
  /\ UNCHANGED <<db, row, hpc, hp, dpc, drow>>

ReportStep(t) ==
  \/ \E queryOk \in BOOLEAN, sendOk \in BOOLEAN : ReportCheck(t, queryOk, sendOk)
  \/ \E click \in {"none", "cancel", "confirm"}, ok \in BOOLEAN : ReportCollect(t, click, ok)
  \/ \E type \in ReportTypes, ok \in BOOLEAN : ReportCreate(t, type, ok)
  \/ \E ok \in BOOLEAN : ReportBroadcast(t, ok)

\* ------------------------------------------- the honeypot's report path
\* handle_message computed should_report = true for a message of user u and
\* calls maybe_report_bad_actor (no lock_user_id here).
HpTrigger(h, u) ==
  /\ hpc[h] = "idle"
  /\ FreeWorker
  /\ RoomForRow
  /\ hpc' = [hpc EXCEPT ![h] = "check"]
  /\ hp' = [hp EXCEPT ![h] = [user |-> u, row |-> None]]
  /\ UNCHANGED <<db, bcast, reply, row, dpc, drow>>

\* has_active_case (honeypot/message.rs): an active case is logged and the
\* report is skipped.
HpCheck(h, queryOk) ==
  /\ hpc[h] = "check"
  /\ FreeWorker
  /\ hpc' = [hpc EXCEPT ![h] = IF HasActiveCase(hp[h].user, queryOk) THEN "idle" ELSE "create"]
  /\ UNCHANGED <<db, bcast, reply, row, hp, dpc, drow>>

\* join!(save_bad_actor, get_bot_user, get_origin_guild): the row is inserted
\* when the insert succeeds; the handler goes on to broadcast only when both
\* the bot user and the bad actor are there.
HpCreate(h, createOk, botUserOk) ==
  /\ hpc[h] = "create"
  /\ FreeWorker
  /\ IF createOk
       THEN /\ db' = CreateRow(hp[h].user, "Honeypot", BotId)
            /\ hp' = [hp EXCEPT ![h].row = Len(db) + 1]
       ELSE UNCHANGED <<db, hp>>
  /\ hpc' = [hpc EXCEPT ![h] = IF createOk /\ botUserOk THEN "broadcast" ELSE "idle"]
  /\ UNCHANGED <<bcast, reply, row, dpc, drow>>

\* broadcast(..., BroadcastType::Honeypot)
HpBroadcast(h) ==
  /\ hpc[h] = "broadcast"
  /\ FreeWorker
  /\ bcast' = bcast \cup {<<hp[h].row, "Honeypot">>}
  /\ hpc' = [hpc EXCEPT ![h] = "idle"]
  /\ UNCHANGED <<db, reply, row, hp, dpc, drow>>

HpStep(h) ==
  \/ \E u \in Users : HpTrigger(h, u)
  \/ \E queryOk \in BOOLEAN : HpCheck(h, queryOk)
  \/ \E createOk \in BOOLEAN, botUserOk \in BOOLEAN : HpCreate(h, createOk, botUserOk)
  \/ HpBroadcast(h)

\* ------------------------------------------------- the deactivate command
\* deactivate: get_by_id; a missing or inactive entry ends the command.
DeactStart(id, queryOk) ==
  /\ dpc = "idle"
  /\ FreeWorker
  /\ id \in 1..Len(db)
  /\ IF queryOk /\ db[id].active
       THEN dpc' = "update" /\ drow' = id
       ELSE UNCHANGED <<dpc, drow>>
  /\ UNCHANGED <<db, bcast, reply, row, hpc, hp>>

\* BadActorModelController::deavtivate, then the Deactivate broadcast (skipped
\* when the target's account cannot be fetched).
DeactUpdate(updateOk, userOk) ==
  /\ dpc = "update"
  /\ FreeWorker
  /\ db' = IF updateOk THEN DeactivateRow(drow) ELSE db
  /\ bcast' = IF updateOk /\ userOk THEN bcast \cup {<<drow, "Deactivate">>} ELSE bcast
  /\ dpc' = "idle"
  /\ drow' = None
  /\ UNCHANGED <<reply, row, hpc, hp>>

DeactStep ==
  \/ \E id \in 1..MaxRows, queryOk \in BOOLEAN : DeactStart(id, queryOk)
  \/ \E updateOk \in BOOLEAN, userOk \in BOOLEAN : DeactUpdate(updateOk, userOk)

\* ------------------------------------------------- the honeypot queue
Channels == {1, 2, 3}
Guilds == {1}
Posts == {<<1, "x">>, <<2, "x">>, <<BotId, "x">>}
HoneypotChoices == {1, None}
Window == 60
Steps == {30}

\* Mutant: nothing in the queue counts as new.
first_new_msg_none(q, now) == Len(q) + 1

\* remove_old_messages: the index of the first entry younger than the window,
\* or the queue's length when there is none (1-based here).
first_new_msg(q, now) ==
  IF \E i \in 1..Len(q) : now - q[i].timestamp < Window
    THEN CHOOSE i \in 1..Len(q) :
           /\ now - q[i].timestamp < Window
           /\ \A j \in 1..(i - 1) : ~(now - q[j].timestamp < Window)
    ELSE Len(q) + 1

\* queue.drain(..first_new_msg): what stays in the queue ...
remaining(q, now) == SubSeq(q, first_new_msg(q, now), Len(q))
\* ... and .filter(|msg| msg.is_in_honeypot).collect(): what is returned.
remove_old_messages(q, now) ==
  SelectSeq(SubSeq(q, 1, first_new_msg(q, now) - 1), LAMBDA m : m.is_in_honeypot)

contains(seq, x) == \E i \in 1..Len(seq) : seq[i] = x

\* should_report's loop over queue.iter(), from entry i on.
RECURSIVE scan(_, _, _, _, _)
scan(q, i, new_msg, seen_channel_ids, is_any_in_honeypot) ==
  IF i > Len(q)
    THEN Len(seen_channel_ids) >= 3 /\ is_any_in_honeypot
    ELSE IF /\ q[i].user_id = new_msg.user_id
            /\ q[i].content = new_msg.content
            /\ ~contains(seen_channel_ids, q[i].channel_id)
      THEN scan(q, i + 1, new_msg, Append(seen_channel_ids, q[i].channel_id),
                is_any_in_honeypot \/ q[i].is_in_honeypot)
      ELSE scan(q, i + 1, new_msg, seen_channel_ids, is_any_in_honeypot)

should_report(q, new_msg) ==
  scan(q, 1, new_msg, <<new_msg.channel_id>>, new_msg.is_in_honeypot)

\* SELECT honeypot_channel_id FROM server_configs, the NULLs skipped.
StoredChannels(rows) == {rows[g] : g \in Guilds} \ {None}

InitHpVars ==
  /\ queue = <<>>
  /\ clock = 0
  /\ dbHoneypot = [g \in Guilds |-> 1]
  /\ honeypot_channels = {1}
  /\ inflight = {}
  /\ removed = <<>>
  /\ reported = FALSE
  /\ evictions = [i \in 1..MaxMsgs |-> 0]
  /\ nextMsg = 0
  /\ rpc = "idle"

\* Time passes.
Tick(d) ==
  /\ clock + d <= MaxTime
  /\ clock' = clock + d
  /\ UNCHANGED <<queue, honeypot_channels, dbHoneypot, inflight, removed,
                 reported, evictions, nextMsg, rpc>>

\* handle_message up to queue.lock().await: a message outside a guild or of the
\* bot itself is dropped; the others are classified with the channel set as it
\* is now (a honeypot message is then deleted, which changes nothing here).
Receive(u, c, ch) ==
  /\ u # BotId
  /\ Cardinality(inflight) < MaxInflight
  /\ nextMsg + Cardinality(inflight) < MaxMsgs
  /\ inflight' = inflight \cup
       {[user_id |-> u, content |-> c, channel_id |-> ch,
         is_in_honeypot |-> ch \in honeypot_channels]}
  /\ UNCHANGED <<queue, clock, honeypot_channels, dbHoneypot, removed,
                 reported, evictions, nextMsg, rpc>>

\* handle_message with the queue locked: remove_old_messages, should_report,
\* push, unlock; then maybe_report_bad_actor starts (its database steps are
\* HpCheck, HpCreate and HpBroadcast).
Handle(m, h) ==
  /\ m \in inflight
  /\ hpc[h] = "idle"
  /\ RoomForRow
  /\ LET now == clock
         kept == remaining(queue, now)
         gone == remove_old_messages(queue, now)
         new_msg == [id |-> nextMsg + 1, user_id |-> m.user_id, content |-> m.content,
                     channel_id |-> m.channel_id, timestamp |-> now,
                     is_in_honeypot |-> m.is_in_honeypot]
         rep == should_report(kept, new_msg)
     IN /\ removed' = gone
        /\ reported' = rep
        /\ queue' = Append(kept, new_msg)
        /\ evictions' = [i \in 1..MaxMsgs |->
                           IF \E k \in 1..Len(gone) : gone[k].id = i
                             THEN evictions[i] + 1 ELSE evictions[i]]
        /\ hpc' = [hpc EXCEPT ![h] = IF rep THEN "check" ELSE "idle"]
        /\ hp' = [hp EXCEPT ![h] = IF rep THEN [user |-> m.user_id, row |-> None] ELSE @]
  /\ nextMsg' = nextMsg + 1
  /\ inflight' = inflight \ {m}
  /\ UNCHANGED <<clock, honeypot_channels, dbHoneypot, rpc>>
  /\ UNCHANGED <<db, bcast, reply, row, dpc, drow>>

\* add_honeypot_channel / remove_honeypot_channel: the UPDATE of the guild's
\* row; an error ends the command before the set is touched.
ChannelUpdate(g, ch, ok) ==
  /\ rpc = "idle"
  /\ IF ok
       THEN dbHoneypot' = [dbHoneypot EXCEPT ![g] = ch] /\ rpc' = "clear"
       ELSE UNCHANGED <<dbHoneypot, rpc>>
  /\ UNCHANGED <<queue, clock, honeypot_channels, inflight, removed,
                 reported, evictions, nextMsg>>

\* populate_honeypot_channels: channels.clear() ...
PopulateClear ==
  /\ rpc = "clear"
  /\ honeypot_channels' = {}
  /\ rpc' = "select"
  /\ UNCHANGED <<queue, clock, dbHoneypot, inflight, removed,
                 reported, evictions, nextMsg>>

\* ... then the SELECT is answered and every non-null id is inserted (the
\* rows cannot change in between: the command is the only writer).
PopulateInsert ==
  /\ rpc = "select"
  /\ honeypot_channels' = honeypot_channels \cup StoredChannels(dbHoneypot)
  /\ rpc' = "idle"
  /\ UNCHANGED <<queue, clock, dbHoneypot, inflight, removed,
                 reported, evictions, nextMsg>>

\* ------------------------------------------------ the moderation engine
BroadcastTypes ==
  {"Report", "Deactivate", "AddScreenshot", "ReplaceScreenshot", "UpdateExplanation", "Honeypot"}
ActorTypes == {"Spam", "Impersonation", "Bigotry", "Honeypot"}
ActionLevels == {"Notify", "Timeout", "Kick", "SoftBan", "Ban"}
Roles == {"@everyone", "member", "staff"}
BadActorIds == {42}
\* ServerConfig.ban_reason: None is the empty sequence, a stored reason the
\* sequence of its literal pieces and placeholders.
NoReason == <<>>
BanReasons == {NoReason, <<"Violation: ", "{type}", " #", "{id}">>}
ServerConfigs ==
  [spam_action_level : ActionLevels, impersonation_action_level : ActionLevels,
   bigotry_action_level : ActionLevels, honeypot_action_level : ActionLevels,
   ignored_roles : {{}, {"member"}}, ban_reason : BanReasons]
NoMember == [found |-> FALSE, roles |-> {}]

\* Mutant: every broadcast type counts as a new report.
is_new_report_always(broadcast_type) == TRUE

\* BroadcastType::is_new_report
is_new_report(broadcast_type) == broadcast_type \in {"Report", "Honeypot"}

get_moderation_action(broadcast_type, actor_type, server_config) ==
  IF ~is_new_report(broadcast_type)
    THEN "Notify"
    ELSE CASE actor_type = "Spam" -> server_config.spam_action_level
           [] actor_type = "Impersonation" -> server_config.impersonation_action_level
           [] actor_type = "Bigotry" -> server_config.bigotry_action_level
           [] actor_type = "Honeypot" -> server_config.honeypot_action_level

\* The member's roles without @everyone and without the ignored roles.
get_non_ignored_roles(member_roles, ignored_roles) ==
  {role \in member_roles : role # "@everyone" /\ role \notin ignored_roles}

\* impl Display for BadActorType
DisplayHoneypot == "honeypot"
Display(actor_type) ==
  CASE actor_type = "Spam" -> "spam"
    [] actor_type = "Impersonation" -> "impersonation"
    [] actor_type = "Bigotry" -> "bigotry"
    [] actor_type = "Honeypot" -> DisplayHoneypot

\* BadActor::ban_reason: format!("Bad Actor {} ({})", self.actor_type, self.id)
ban_reason(actor_type, id) ==
  "Bad Actor " \o Display(actor_type) \o " (" \o ToString(id) \o ")"

\* The call moderate makes for an action level.
CallOf(level) ==
  CASE level = "Notify" -> "none"
    [] level = "Timeout" -> "timeout"
    [] level = "Kick" -> "kick"
    [] level = "SoftBan" -> "softban"
    [] level = "Ban" -> "ban"

NoOptions ==
  [broadcast_type |-> "Report", actor_type |-> "Spam", id |-> 42,
   server_config |-> [spam_action_level |-> "Notify",
                      impersonation_action_level |-> "Notify",
                      bigotry_action_level |-> "Notify",
                      honeypot_action_level |-> "Notify",
                      ignored_roles |-> {}, ban_reason |-> NoReason]]

InitModVars ==
  /\ mpc = "idle"
  /\ modIn = NoOptions
  /\ world = [is_member |-> FALSE, roles |-> {}]
  /\ action_level = "Notify"
  /\ member = NoMember
  /\ enforced = "none"
  /\ reason = ""
  /\ informed = "none"
  /\ calls = <<>>
  /\ posted = FALSE
  /\ central = FALSE
  /\ mutated = FALSE
  /\ sent = FALSE

\* moderate is called for one listener: the action level is resolved; Notify
\* ends the call.
ModerateStart(broadcast_type, actor_type, id, server_config) ==
  /\ mpc = "idle"
  /\ modIn' = [broadcast_type |-> broadcast_type, actor_type |-> actor_type, id |-> id,
               server_config |-> server_config]
  /\ action_level' = get_moderation_action(broadcast_type, actor_type, server_config)
  /\ mpc' = IF action_level' = "Notify" THEN "done" ELSE "lookup"
  /\ UNCHANGED <<world, member, enforced, reason, informed, calls, posted, central, mutated, sent>>

\* guild.member(...).await.ok(): the member when the target is one and the
\* request succeeds, None otherwise; the branch to take follows from it.
ModerateLookup(is_member, roles, ok) ==
  /\ mpc = "lookup"
  /\ ~is_member => roles = {}
  /\ world' = [is_member |-> is_member, roles |-> roles]
  /\ member' = IF is_member /\ ok THEN [found |-> TRUE, roles |-> roles] ELSE NoMember
  /\ mpc' = IF ~member'.found
              THEN IF action_level = "Ban" THEN "ban" ELSE "not_member"
              ELSE IF get_non_ignored_roles(member'.roles, modIn.server_config.ignored_roles) # {}
                THEN "non_ignored"
                ELSE "act"
  /\ UNCHANGED <<modIn, action_level, enforced, reason, informed, calls, posted, central, mutated, sent>>

\* Mutant: every level's function bans.
RequestsBan(level) == <<"ban">>

\* The requests that change the guild made by the function of a level
\* (timeout, kick, soft_ban, ban), in order.
Requests(level) ==
  CASE level = "Notify" -> <<>>
    [] level = "Timeout" -> <<"timeout">>
    [] level = "Kick" -> <<"kick">>
    [] level = "SoftBan" -> <<"ban", "unban">>
    [] level = "Ban" -> <<"ban">>

\* The branch's call: the ban of a target that is no member, one of the two
\* informational messages, or the action of the resolved level. mutOk, unbanOk
\* and sendOk are the outcomes of the first request, of the unban of a soft
\* ban and of send_message; each function returns at its first failed request
\* (`?`), so the result message is only sent after the requests succeeded. The
\* result of the ban of a non-member is dropped, every other Err goes to the
\* central logger.
ModerateAct(mutOk, unbanOk, sendOk) ==
  LET requests == CASE mpc = "ban" -> Requests("Ban")
                    [] mpc = "act" -> Requests(action_level)
                    [] OTHER -> <<>>
      done == mutOk /\ unbanOk
  IN
  /\ mpc \in {"ban", "not_member", "non_ignored", "act"}
  /\ requests = <<>> => mutOk
  /\ (Len(requests) < 2 \/ ~mutOk) => unbanOk
  /\ ~done => sendOk
  /\ enforced' = CASE mpc = "ban" -> "ban"
                   [] mpc = "act" -> CallOf(action_level)
                   [] OTHER -> "none"
  /\ reason' = IF enforced' = "ban" THEN ban_reason(modIn.actor_type, modIn.id) ELSE ""
  /\ informed' = IF mpc \in {"not_member", "non_ignored"} THEN mpc ELSE "none"
  /\ calls' = IF mutOk THEN requests ELSE <<Head(requests)>>
  /\ mutated' = (requests # <<>> /\ done)
  /\ sent' = done
  /\ posted' = (done /\ sendOk)
  /\ central' = (mpc # "ban" /\ ~(done /\ sendOk))
  /\ mpc' = "done"
  /\ UNCHANGED <<modIn, world, action_level, member>>

\* moderate returns.
ModerateReturn ==
  /\ mpc = "done"
  /\ mpc' = "idle"
  /\ world' = [is_member |-> FALSE, roles |-> {}]
  /\ member' = NoMember
  /\ enforced' = "none"
  /\ reason' = ""
  /\ informed' = "none"
  /\ calls' = <<>>
  /\ posted' = FALSE
  /\ central' = FALSE
  /\ mutated' = FALSE
  /\ sent' = FALSE
  /\ modIn' = NoOptions
  /\ action_level' = "Notify"

\* ------------------------------------------------ the listener registry
ListenerGuilds == {1, 2}
\* A guild's row of server_configs: none, one that DbServerConfig -> ServerConfig
\* rejects (an id that is no snowflake, an unknown action level), one without
\* log_channel_id, one with it.
RowKinds == {"absent", "malformed", "no_log_channel", "log_channel"}
\* What log_channel.to_channel() finds: nothing, a private channel, a guild
\* channel that is not text based, a guild text channel.
ChannelKinds == {"unresolvable", "private", "voice", "text"}
NoFacts == [g \in ListenerGuilds |-> [channel |-> "unresolvable", hydrated |-> FALSE]]
NoTable == [g \in ListenerGuilds |-> "absent"]

InitRegVars ==
  /\ lpc = "idle"
  /\ ltable = NoTable
  /\ lfacts = NoFacts
  /\ registry = "none"
  /\ listeners = {}
  /\ lwarned = {}

\* get_valid_listeners is called; the table is what it is at that time.
ListenersStart(table) ==
  /\ lpc = "idle"
  /\ lpc' = "get_all"
  /\ ltable' = table
  /\ lfacts' = NoFacts
  /\ registry' = "none"
  /\ listeners' = {}
  /\ lwarned' = {}

\* ServerConfigModelController::get_all: Ok when the query works and every row
\* converts (the conversions are collected into one Result).
get_all(table, queryOk) ==
  queryOk /\ \A g \in ListenerGuilds : table[g] # "malformed"

\* get_all(db_pool).await?: an error ends get_valid_listeners.
ListenersGetAll(queryOk) ==
  /\ lpc = "get_all"
  /\ IF get_all(ltable, queryOk)
       THEN lpc' = "resolve" /\ registry' = registry
       ELSE lpc' = "done" /\ registry' = "err"
  /\ UNCHANGED <<ltable, lfacts, listeners, lwarned>>

\* Rows whose get_valid_logchannel future has not been taken from the
\* FuturesUnordered yet.
Unresolved == {g \in ListenerGuilds : ltable[g] \notin {"absent", "malformed"}} \ (listeners \cup lwarned)

\* get_valid_logchannel and the match on its result: a listener when the row
\* has a log channel id, the channel resolves, is a guild channel, is text
\* based and ServerConfigComplete::try_from_server_config is Ok.
get_valid_logchannel(rowKind, channel, hydrated) ==
  /\ rowKind = "log_channel"
  /\ channel # "unresolvable"
  /\ channel # "private"
  /\ channel # "voice"
  /\ hydrated

\* One future of the FuturesUnordered completes: the guild becomes a listener
\* or is skipped with a warning.
ListenersResolve(g, channel, hydrated) ==
  /\ lpc = "resolve"
  /\ g \in Unresolved
  /\ lfacts' = [lfacts EXCEPT ![g] = [channel |-> channel, hydrated |-> hydrated]]
  /\ IF get_valid_logchannel(ltable[g], channel, hydrated)
       THEN listeners' = listeners \cup {g} /\ lwarned' = lwarned
       ELSE lwarned' = lwarned \cup {g} /\ listeners' = listeners
  /\ UNCHANGED <<lpc, ltable, registry>>

\* The stream is exhausted: Ok(valid_configs).
ListenersCollected ==
  /\ lpc = "resolve"
  /\ Unresolved = {}
  /\ lpc' = "done"
  /\ registry' = "ok"
  /\ UNCHANGED <<ltable, lfacts, listeners, lwarned>>

\* The caller has taken the result.
ListenersReturn ==
  /\ lpc = "done"
  /\ lpc' = "idle"
  /\ ltable' = NoTable
  /\ lfacts' = NoFacts
  /\ registry' = "none"
  /\ listeners' = {}
  /\ lwarned' = {}

\* --------------------------------------------------- the webhook fan-out
WebhookRows == {1, 2, 3}
\* A row of the webhooks table: none, one whose guild id or URL does not parse,
\* one whose URL parses but is no webhook any more, one of a live webhook.
UrlKinds == {"absent", "bad_url", "dead_url", "live_url"}
NoWebhooks == [w \in WebhookRows |-> "absent"]
NoExecutions == [w \in WebhookRows |-> 0]

InitWhVars ==
  /\ wpc = "idle"
  /\ wtable = NoWebhooks
  /\ wquery = TRUE
  /\ wgood = {}
  /\ wexec = NoExecutions
  /\ wlogged = {}

\* broadcast_to_webhooks is called.
WebhooksStart(table) ==
  /\ wpc = "idle"
  /\ wpc' = "fetch"
  /\ wtable' = table
  /\ UNCHANGED <<wquery, wgood, wexec, wlogged>>

\* get_webhooks_from_db: Ok when the query works and every row converts
\* (BroadcastWebhook::try_from collected into one Result).
get_webhooks_from_db(table, queryOk) ==
  queryOk /\ \A w \in WebhookRows : table[w] # "bad_url"

\* An Err is logged and ends the fan-out.
WebhooksFetch(queryOk) ==
  /\ wpc = "fetch"
  /\ wquery' = queryOk
  /\ wpc' = IF get_webhooks_from_db(wtable, queryOk) THEN "resolve" ELSE "done"
  /\ UNCHANGED <<wtable, wgood, wexec, wlogged>>

\* get_discord_webhooks: Webhook::from_url of every row (join_all); the good
\* ones are kept, an error is logged for every other.
WebhooksResolve ==
  /\ wpc = "resolve"
  /\ wgood' = {w \in WebhookRows : wtable[w] = "live_url"}
  /\ wlogged' = wlogged \cup {w \in WebhookRows : wtable[w] = "dead_url"}
  /\ wpc' = "execute"
  /\ UNCHANGED <<wtable, wquery, wexec>>

\* Mutant: a webhook is executed again in the same call.
WebhooksExecuteAgain(w, ok) ==
  /\ wpc = "execute"
  /\ w \in wgood
  /\ wexec[w] < 2
  /\ wexec' = [wexec EXCEPT ![w] = @ + 1]
  /\ wlogged' = IF ok THEN wlogged ELSE wlogged \cup {w}
  /\ UNCHANGED <<wpc, wtable, wquery, wgood>>

\* One of the execute futures of the join_all completes; a failure is logged.
WebhooksExecute(w, ok) ==
  /\ wpc = "execute"
  /\ w \in wgood
  /\ wexec[w] = 0
  /\ wexec' = [wexec EXCEPT ![w] = @ + 1]
  /\ wlogged' = IF ok THEN wlogged ELSE wlogged \cup {w}
  /\ UNCHANGED <<wpc, wtable, wquery, wgood>>

\* join_all(futures) is done.
WebhooksExecuted ==
  /\ wpc = "execute"
  /\ \A w \in wgood : wexec[w] > 0
  /\ wpc' = "done"
  /\ UNCHANGED <<wtable, wquery, wgood, wexec, wlogged>>

\* broadcast_to_webhooks returns.
WebhooksReturn ==
  /\ wpc = "done"
  /\ wpc' = "idle"
  /\ wtable' = NoWebhooks
  /\ wquery' = TRUE
  /\ wgood' = {}
  /\ wexec' = NoExecutions
  /\ wlogged' = {}

\* ------------------------------------------- the message to a listener
\* The most users that can be whitelisted for one guild in the model.
MaxWhitelisted == 11
\* SELECT * FROM users WHERE $1 = ANY(servers) LIMIT 10
UserLimit == 10
NoAttachment == "none"
Attachments == {NoAttachment, "screenshot.png"}
PingRoles == {None, 7}
SendLevels == {"Notify", "Ban"}
\* The fields of a ServerConfig that send_broadcast_message reads.
SendConfigs ==
  [guild_id : ListenerGuilds, ping_users : BOOLEAN, ping_role : PingRoles,
   spam_action_level : SendLevels, impersonation_action_level : SendLevels,
   bigotry_action_level : SendLevels, honeypot_action_level : SendLevels]
\* The users whitelisted for the listener's guild: 1..n.
Whitelists == {0, 1, 2, MaxWhitelisted}

\* BroadcastType::message
message(broadcast_type) ==
  CASE broadcast_type = "Report" -> "A bad actor has been reported."
    [] broadcast_type = "Deactivate" -> "A bad actor has been deactivated."
    [] broadcast_type = "AddScreenshot" -> "A screenshot proof has been added to a bad actor entry."
    [] broadcast_type = "UpdateExplanation" -> "The explanation for a bad actor has been updated."
    [] broadcast_type = "ReplaceScreenshot" -> "A screenshot has been replaced for a bad actor."
    [] broadcast_type = "Honeypot" -> "A bad actor was caught by the honeypot."

\* Mentionable::mention of a role and of a user
RoleMention(role) == "<@&" \o ToString(role) \o ">"
UserMention(user) == "<@" \o ToString(user) \o ">"

\* UserModelController::get_by_guild: the users whitelisted for the guild, at
\* most UserLimit of them; the query has no order, `first` is where the rows
\* it returns start.
get_by_guild(whitelisted, first) ==
  LET n == IF whitelisted > UserLimit THEN UserLimit ELSE whitelisted
  IN [i \in 1..n |-> ((first + i - 2) % whitelisted) + 1]

\* Mutant: the origin guild is pinged like every other.
get_message_with_pings_origin(content, config, bad_actor, level) ==
  IF level # "Notify"
    THEN <<content>>
    ELSE <<content, RoleMention(config.server_config.ping_role)>>

\* The lines of the message text (joined with "\n" in the code).
get_message_with_pings(content, config, bad_actor, level) ==
  IF bad_actor.origin_guild_id = config.server_config.guild_id
    THEN <<content>>
  ELSE IF level # "Notify"
    THEN <<content>>
  ELSE LET pinged == IF config.server_config.ping_role # None
                       THEN <<content, RoleMention(config.server_config.ping_role)>>
                       ELSE <<content>>
       IN IF config.server_config.ping_users
            THEN IF config.users = <<>>
                   THEN pinged \o <<"">>
                   ELSE pinged \o [i \in 1..Len(config.users) |-> UserMention(config.users[i])]
            ELSE pinged

CreateButton(id, label) == [custom_id |-> id, label |-> label]

\* Mutant: the three buttons on every new report, whatever the level.
get_broadcast_message_any_level(content, embed, attachment, level, broadcast_type) ==
  [content |-> content, embed |-> embed,
   files |-> IF attachment # NoAttachment THEN <<attachment>> ELSE <<>>,
   components |-> IF is_new_report(broadcast_type)
                    THEN <<CreateButton("ban", "Ban"), CreateButton("softban", "Softban"),
                           CreateButton("kick", "Kick")>>
                    ELSE IF broadcast_type = "Deactivate"
                      THEN <<CreateButton("unban", "Unban")>>
                      ELSE <<>>]

\* components is the one action row of the message, empty when there is none.
get_broadcast_message(content, embed, attachment, level, broadcast_type) ==
  LET buttons ==
        IF is_new_report(broadcast_type) /\ level = "Notify"
          THEN <<CreateButton("ban", "Ban"), CreateButton("softban", "Softban"),
                 CreateButton("kick", "Kick")>>
        ELSE IF broadcast_type = "Deactivate"
          THEN <<CreateButton("unban", "Unban")>>
          ELSE <<>>
  IN [content |-> content, embed |-> embed,
      files |-> IF attachment # NoAttachment THEN <<attachment>> ELSE <<>>,
      components |-> buttons]

NoSend ==
  [broadcast_type |-> "Report", actor_type |-> "Spam", origin_guild_id |-> 1,
   attachment |-> NoAttachment, whitelisted |-> 0,
   config |-> [server_config |-> [guild_id |-> 1, ping_users |-> FALSE, ping_role |-> None,
                                  spam_action_level |-> "Notify",
                                  impersonation_action_level |-> "Notify",
                                  bigotry_action_level |-> "Notify",
                                  honeypot_action_level |-> "Notify"],
               users |-> <<>>]]
NoMessage == [content |-> <<>>, embed |-> "none", files |-> <<>>, components |-> <<>>]

InitSendVars ==
  /\ spc = "idle"
  /\ sendIn = NoSend
  /\ slevel = "Notify"
  /\ smessage = NoMessage
  /\ sdelivered = FALSE

\* send_broadcast_message up to the send: the level, the text and the message
\* of a listener whose users were read by get_by_guild at the hydration.
SendStart(broadcast_type, actor_type, origin_guild_id, attachment, server_config, whitelisted, first) ==
  LET config == [server_config |-> server_config, users |-> get_by_guild(whitelisted, first)]
      bad_actor == [origin_guild_id |-> origin_guild_id, actor_type |-> actor_type]
      action_level_ == get_moderation_action(broadcast_type, actor_type, server_config)
      content == get_message_with_pings(message(broadcast_type), config, bad_actor, action_level_)
  IN
  /\ spc = "idle"
  /\ whitelisted = 0 => first = 1
  /\ first <= whitelisted \/ first = 1
  /\ sendIn' = [broadcast_type |-> broadcast_type, actor_type |-> actor_type,
                origin_guild_id |-> origin_guild_id, attachment |-> attachment,
                whitelisted |-> whitelisted, config |-> config]
  /\ slevel' = action_level_
  /\ smessage' = get_broadcast_message(content, "embed", attachment, action_level_, broadcast_type)
  /\ spc' = "send"
  /\ UNCHANGED sdelivered

\* log_channel.send_message; a failure is logged.
SendDeliver(ok) ==
  /\ spc = "send"
  /\ sdelivered' = ok
  /\ spc' = "done"
  /\ UNCHANGED <<sendIn, slevel, smessage>>

\* send_broadcast_message returns.
SendReturn ==
  /\ spc = "done"
  /\ spc' = "idle"
  /\ sendIn' = NoSend
  /\ slevel' = "Notify"
  /\ smessage' = NoMessage
  /\ sdelivered' = FALSE

\* ------------------------------------------------------- the broadcast
\* The log channel of the admin server, next to those of the listener guilds.
AdminChannel == 0
LogChannels == ListenerGuilds \cup {AdminChannel}
Tasks == {"send", "moderate", "webhooks"}
NoTasks == [g \in ListenerGuilds |-> {}]
NoLogs == [c \in LogChannels |-> {}]
\* Every guild has a row with a log channel.
AllRows == [g \in ListenerGuilds |-> "log_channel"]
\* One stored webhook.
OneWebhook == [w \in WebhookRows |-> IF w = 1 THEN "live_url" ELSE "absent"]

get_embed_colour(broadcast_type) ==
  CASE broadcast_type = "AddScreenshot" -> "Yellow"
    [] broadcast_type = "Deactivate" -> "Green"
    [] broadcast_type = "Honeypot" -> "DeepPink"
    [] broadcast_type = "Report" -> "Red"
    [] broadcast_type = "ReplaceScreenshot" -> "Orange"
    [] broadcast_type = "UpdateExplanation" -> "Orange"

\* BadActor::to_broadcast_embed
to_broadcast_embed(bad_actor, colour) ==
  [id |-> bad_actor.id, actor_type |-> bad_actor.actor_type, colour |-> colour]

\* A message without an embed.
NoEmbed == [id |-> 0, actor_type |-> "none", colour |-> "none"]

get_broadcast_message_no_buttons(content, embed, attachment) ==
  [content |-> <<content>>, embed |-> embed,
   files |-> IF attachment # NoAttachment THEN <<attachment>> ELSE <<>>,
   components |-> <<>>]

\* The message a branch of moderate posts into the log channel.
ResultMessage(enforcement, information) ==
  LET text ==
        CASE information = "not_member" ->
               "User {} is not a member of your server. Skipping moderation."
          [] information = "non_ignored" ->
               "User {} has roles that are not ignored. Those roles are {roles}. Skipping all moderation action."
          [] enforcement = "ban" -> "User {} was banned from your server!"
          [] enforcement = "softban" -> "User {} was softbanned from your server!"
          [] enforcement = "timeout" -> "User {} was timed out for 7 days!"
          [] enforcement = "kick" -> "User {} was kicked from your server!"
  IN [content |-> <<text>>, embed |-> NoEmbed, files |-> <<>>, components |-> <<>>]

\* The configuration of a listener guild: a ping role, ping_users on, the
\* given level for spam.
BroadcastConfig(g, level) ==
  [guild_id |-> g, ping_users |-> TRUE, ping_role |-> 7,
   spam_action_level |-> level, impersonation_action_level |-> "Notify",
   bigotry_action_level |-> "Notify", honeypot_action_level |-> "Notify",
   ignored_roles |-> {}, ban_reason |-> NoReason]

NoBroadcast ==
  [broadcast_type |-> "Report", actor_type |-> "Spam", id |-> 42, origin_guild_id |-> 1,
   attachment |-> NoAttachment, levels |-> [g \in ListenerGuilds |-> "Notify"], members |-> {}]

InitBcVars ==
  /\ bpc = "idle"
  /\ bIn = NoBroadcast
  /\ badmin = "none"
  /\ bdm = "none"
  /\ bfinished = NoTasks
  /\ bfailed = {}
  /\ blog = NoLogs
  /\ bbanned = {}
  /\ mfor = None
  /\ wfor = None

Embed == to_broadcast_embed(bIn, get_embed_colour(bIn.broadcast_type))

\* broadcast is called and calls get_valid_listeners.
BroadcastStart(broadcast_type, origin_guild_id, levels, members) ==
  /\ bpc = "idle"
  /\ bIn' = [NoBroadcast EXCEPT !.broadcast_type = broadcast_type,
                                !.origin_guild_id = origin_guild_id,
                                !.levels = levels, !.members = members]
  /\ bpc' = "listeners"
  /\ ListenersStart(AllRows)
  /\ UNCHANGED <<badmin, bdm, bfinished, bfailed, blog, bbanned, mfor, wfor>>

\* Mutant: a failed registry build does not end the broadcast.
AfterListenersAlways(result) == "admin"

\* match get_valid_listeners: Err is logged and ends the broadcast.
AfterListeners(result) == IF result = "err" THEN "done" ELSE "admin"

BroadcastListeners ==
  /\ bpc = "listeners"
  /\ lpc = "done"
  /\ bpc' = AfterListeners(registry)
  /\ UNCHANGED <<bIn, badmin, bdm, bfinished, bfailed, blog, bbanned, mfor, wfor>>

\* admin::broadcast_admin_server is awaited.
BroadcastAdminSend ==
  /\ bpc = "admin"
  /\ badmin = "none"
  /\ badmin' = "sending"
  /\ UNCHANGED <<bpc, bIn, bdm, bfinished, bfailed, blog, bbanned, mfor, wfor>>

\* It returns; an Err is logged.
BroadcastAdminResult(ok) ==
  /\ bpc = "admin"
  /\ badmin = "sending"
  /\ badmin' = "done"
  /\ blog' = IF ok
               THEN [blog EXCEPT ![AdminChannel] = @ \cup
                       {get_broadcast_message_no_buttons(message(bIn.broadcast_type), Embed,
                                                         bIn.attachment)}]
               ELSE blog
  /\ bfailed' = IF ok THEN bfailed ELSE bfailed \cup {<<AdminChannel, "admin">>}
  /\ bpc' = "dm"
  /\ UNCHANGED <<bIn, bdm, bfinished, bbanned, mfor, wfor>>

\* broadcast_type.is_new_report() && notify_user(...): the direct message is
\* awaited for a new report, skipped otherwise.
BroadcastNotify ==
  /\ bpc = "dm"
  /\ bdm = "none"
  /\ IF is_new_report(bIn.broadcast_type)
       THEN bdm' = "sending" /\ bpc' = bpc
       ELSE bdm' = bdm /\ bpc' = "fanout"
  /\ UNCHANGED <<bIn, badmin, bfinished, bfailed, blog, bbanned, mfor, wfor>>

\* notify_user returns; an Err is logged as a warning.
BroadcastNotifyResult(ok) ==
  /\ bpc = "dm"
  /\ bdm = "sending"
  /\ bdm' = "done"
  /\ bfailed' = IF ok THEN bfailed ELSE bfailed \cup {<<AdminChannel, "dm">>}
  /\ bpc' = "fanout"
  /\ UNCHANGED <<bIn, badmin, bfinished, blog, bbanned, mfor, wfor>>

\* The listener of a guild: its configuration and the one user whitelisted
\* for it.
Listener(g) ==
  [server_config |-> BroadcastConfig(g, bIn.levels[g]), users |-> get_by_guild(1, 1)]

\* Mutant: a listener whose moderation failed gets the message of a guild
\* that only notifies.
BroadcastSendByOutcome(g, ok) ==
  LET level == IF <<g, "moderate">> \in bfailed
                 THEN "Notify"
                 ELSE get_moderation_action(bIn.broadcast_type, bIn.actor_type,
                                            Listener(g).server_config)
      content == get_message_with_pings(message(bIn.broadcast_type), Listener(g), bIn, level)
      msg == get_broadcast_message(content, Embed, bIn.attachment, level, bIn.broadcast_type)
  IN
  /\ bpc = "fanout"
  /\ g \in listeners
  /\ "send" \notin bfinished[g]
  /\ bfinished' = [bfinished EXCEPT ![g] = @ \cup {"send"}]
  /\ blog' = IF ok THEN [blog EXCEPT ![g] = @ \cup {msg}] ELSE blog
  /\ bfailed' = IF ok THEN bfailed ELSE bfailed \cup {<<g, "send">>}
  /\ UNCHANGED <<bpc, bIn, badmin, bdm, bbanned, mfor, wfor>>

\* send_broadcast_message of one listener.
BroadcastSend(g, ok) ==
  LET level == get_moderation_action(bIn.broadcast_type, bIn.actor_type,
                                     Listener(g).server_config)
      content == get_message_with_pings(message(bIn.broadcast_type), Listener(g), bIn, level)
      msg == get_broadcast_message(content, Embed, bIn.attachment, level, bIn.broadcast_type)
  IN
  /\ bpc = "fanout"
  /\ g \in listeners
  /\ "send" \notin bfinished[g]
  /\ bfinished' = [bfinished EXCEPT ![g] = @ \cup {"send"}]
  /\ blog' = IF ok THEN [blog EXCEPT ![g] = @ \cup {msg}] ELSE blog
  /\ bfailed' = IF ok THEN bfailed ELSE bfailed \cup {<<g, "send">>}
  /\ UNCHANGED <<bpc, bIn, badmin, bdm, bbanned, mfor, wfor>>

\* moderate of one listener starts. The calls of the listeners run side by
\* side and share nothing; they are taken one after the other here.
BroadcastModerateStart(g) ==
  /\ bpc = "fanout"
  /\ g \in listeners
  /\ "moderate" \notin bfinished[g]
  /\ mfor = None
  /\ mfor' = g
  /\ ModerateStart(bIn.broadcast_type, bIn.actor_type, bIn.id, Listener(g).server_config)
  /\ UNCHANGED <<bpc, bIn, badmin, bdm, bfinished, bfailed, blog, bbanned, wfor>>

\* It returns: what it did to the guild and to the log channel.
BroadcastModerateEnd ==
  /\ mfor # None
  /\ bfinished' = [bfinished EXCEPT ![mfor] = @ \cup {"moderate"}]
  /\ blog' = IF posted
               THEN [blog EXCEPT ![mfor] = @ \cup {ResultMessage(enforced, informed)}]
               ELSE blog
  /\ bbanned' = IF mutated /\ enforced = "ban" THEN bbanned \cup {mfor} ELSE bbanned
  /\ bfailed' = IF action_level # "Notify" /\ (~posted \/ (calls # <<>> /\ ~mutated))
                  THEN bfailed \cup {<<mfor, "moderate">>}
                  ELSE bfailed
  /\ mfor' = None
  /\ ModerateReturn
  /\ UNCHANGED <<bpc, bIn, badmin, bdm, wfor>>

\* broadcast_to_webhooks of one listener starts.
BroadcastWebhooksStart(g) ==
  /\ bpc = "fanout"
  /\ g \in listeners
  /\ "webhooks" \notin bfinished[g]
  /\ wfor = None
  /\ wfor' = g
  /\ WebhooksStart(OneWebhook)
  /\ UNCHANGED <<bpc, bIn, badmin, bdm, bfinished, bfailed, blog, bbanned, mfor>>

\* It returns.
BroadcastWebhooksEnd ==
  /\ wfor # None
  /\ bfinished' = [bfinished EXCEPT ![wfor] = @ \cup {"webhooks"}]
  /\ bfailed' = IF ~wquery \/ wlogged # {}
                  THEN bfailed \cup {<<wfor, "webhooks">>}
                  ELSE bfailed
  /\ wfor' = None
  /\ WebhooksReturn
  /\ UNCHANGED <<bpc, bIn, badmin, bdm, blog, bbanned, mfor>>

\* Mutant: the join does not wait.
join_all_none(finished, ls) == TRUE

\* tokio::join! of the three sub-tasks of a listener inside join_all over the
\* listeners: ready when every one of them is.
join_all(finished, ls) == \A g \in ls : finished[g] = Tasks

\* broadcast_to_listeners returns.
BroadcastJoined ==
  /\ bpc = "fanout"
  /\ mfor = None /\ mpc = "idle"
  /\ wfor = None /\ wpc = "idle"
  /\ join_all(bfinished, listeners)
  /\ bpc' = "done"
  /\ UNCHANGED <<bIn, badmin, bdm, bfinished, bfailed, blog, bbanned, mfor, wfor>>

\* broadcast returns.
BroadcastReturn ==
  /\ bpc = "done"
  /\ bpc' = "idle"
  /\ bIn' = NoBroadcast
  /\ badmin' = "none"
  /\ bdm' = "none"
  /\ bfinished' = NoTasks
  /\ bfailed' = {}
  /\ blog' = NoLogs
  /\ bbanned' = {}
  /\ UNCHANGED <<mfor, wfor>>
  /\ ListenersReturn

\* ------------------------------------------- the honeypot's timeouts
TrollGuilds == {1, 2}
\* ServerConfig.honeypot_timeout in minutes
HoneypotTimeouts == {0, 10}
\* The server_configs row of a guild: none, or its timeout and what its log
\* channel id is (none, an id that is no guild channel, a guild channel).
NoRow == [present |-> FALSE, honeypot_timeout |-> 0, log_channel |-> "none"]
ConfigRows ==
  {NoRow} \cup [present : {TRUE}, honeypot_timeout : HoneypotTimeouts,
                log_channel : {"none", "unresolvable", "text"}]
\* The Vec remove_old_messages returned: the guild of each message (its
\* author is the user of that position).
Evicted == {<<>>} \cup {<<g>> : g \in TrollGuilds} \cup {<<g, h>> : g, h \in TrollGuilds}

InitTrollVars ==
  /\ tpc = "idle"
  /\ tmsgs = <<>>
  /\ tworld = [g \in TrollGuilds |-> NoRow]
  /\ tconfigs = {}
  /\ tnext = 1
  /\ ttimeouts = <<>>
  /\ tposts = <<>>

\* timeout_honeypot_trolls is called; without messages it returns.
TrollsStart(messages, rows) ==
  /\ tpc = "idle"
  /\ tmsgs' = messages
  /\ tworld' = rows
  /\ ttimeouts' = [i \in 1..Len(messages) |-> <<>>]
  /\ tposts' = [i \in 1..Len(messages) |-> 0]
  /\ tpc' = IF messages = <<>> THEN "done" ELSE "configs"
  /\ UNCHANGED <<tconfigs, tnext>>

\* join_all of get_by_guild_id for every message: Ok(Some(config)) is kept,
\* Ok(None) and Err are logged. failed: the guilds whose query failed.
TrollsConfigs(failed) ==
  /\ tpc = "configs"
  /\ failed \subseteq {tmsgs[i] : i \in 1..Len(tmsgs)}
  /\ tconfigs' = {g \in {tmsgs[i] : i \in 1..Len(tmsgs)} \ failed : tworld[g].present}
  /\ tpc' = "loop"
  /\ UNCHANGED <<tmsgs, tworld, tnext, ttimeouts, tposts>>

\* One turn of the loop over the messages: the configuration, the timeout
\* and the log channel are looked at, the member is fetched, timed out, and
\* the result is posted. memberOk, timeoutOk and sendOk are the outcomes of
\* guild_id.member, disable_communication_until_datetime and send_message.
TrollsMessage(memberOk, timeoutOk, sendOk) ==
  LET g == tmsgs[tnext]
      reaches == /\ g \in tconfigs
                 /\ tworld[g].honeypot_timeout # 0
                 /\ tworld[g].log_channel = "text"
  IN
  /\ tpc = "loop"
  /\ tnext <= Len(tmsgs)
  /\ ~reaches => memberOk
  /\ ~(reaches /\ memberOk) => timeoutOk
  /\ ~(reaches /\ memberOk /\ timeoutOk) => sendOk
  /\ ttimeouts' = IF reaches /\ memberOk /\ timeoutOk
                    THEN [ttimeouts EXCEPT ![tnext] = Append(@, tworld[g].honeypot_timeout)]
                    ELSE ttimeouts
  /\ tposts' = IF reaches /\ memberOk /\ timeoutOk /\ sendOk
                 THEN [tposts EXCEPT ![tnext] = @ + 1]
                 ELSE tposts
  /\ tnext' = tnext + 1
  /\ UNCHANGED <<tpc, tmsgs, tworld, tconfigs>>

\* The loop is over.
TrollsLooped ==
  /\ tpc = "loop"
  /\ tnext > Len(tmsgs)
  /\ tpc' = "done"
  /\ UNCHANGED <<tmsgs, tworld, tconfigs, tnext, ttimeouts, tposts>>

\* timeout_honeypot_trolls returns.
TrollsReturn ==
  /\ tpc = "done"
  /\ tpc' = "idle"
  /\ tmsgs' = <<>>
  /\ tworld' = [g \in TrollGuilds |-> NoRow]
  /\ tconfigs' = {}
  /\ tnext' = 1
  /\ ttimeouts' = <<>>
  /\ tposts' = <<>>

\* ------------------------------------------------- the moderation buttons
\* Clicks on the buttons of one message.
NumClicks == 2
Clicks == 1..NumClicks

expected_field_names ==
  <<"Report ID", "Active", "Type", "Explanation", "Server of Origin", "Last Updated By">>

\* The embeds of the message: each embed is the sequence of its field names.
InteractionEmbeds ==
  {<<>>,
   <<expected_field_names>>,
   <<[i \in 1..6 |-> "Active"]>>,
   <<SubSeq(expected_field_names, 1, 5)>>,
   <<[expected_field_names EXCEPT ![6] = "Other"]>>,
   <<expected_field_names \o <<"Other">> >>,
   <<[expected_field_names EXCEPT ![1] = "Other"], expected_field_names>>}

\* interaction.data.custom_id
CustomIds == {"ban", "softban", "kick", "unban", "no_action", "confirm"}
\* TryFrom<CustomId> for ModerationCustomId is Ok
ModerationCustomIds == {"ban", "softban", "kick", "unban", "no_action"}
\* Guild-level permissions of the clicking member
Permissions == {"ban_members", "kick_members"}

\* get_broadcast_embed is Some: the first embed has six fields and the name of
\* each is one of the expected names.
get_broadcast_embed(embeds) ==
  /\ embeds # <<>>
  /\ Len(Head(embeds)) = Len(expected_field_names)
  /\ \A i \in 1..Len(Head(embeds)) :
       \E j \in 1..Len(expected_field_names) : Head(embeds)[i] = expected_field_names[j]

\* Mutant: every member may use every button.
can_moderate_anyone(custom_id, cacheOk, permissionsOk, permissions) == TRUE

\* can_moderate: false without the cache or the member's permissions, and
\* without ban_members (kick_members for the kick button).
can_moderate(custom_id, cacheOk, permissionsOk, permissions) ==
  /\ cacheOk
  /\ permissionsOk
  /\ IF custom_id = "kick"
       THEN "kick_members" \in permissions
       ELSE "ban_members" \in permissions

NoClick == [custom_id |-> "no_action", permissions |-> {}, resolved |-> FALSE]
Nothing == [action |-> "none", ok |-> FALSE, posted |-> FALSE, edited |-> FALSE]

InitBtnVars ==
  /\ imessage = [embeds |-> <<>>, components |-> FALSE]
  /\ ipc = [c \in Clicks |-> "idle"]
  /\ iIn = [c \in Clicks |-> NoClick]
  /\ idid = [c \in Clicks |-> Nothing]

\* A message with buttons is in a log channel; the clicks on it are handled
\* below.
ButtonsPost(embeds) ==
  /\ \A c \in Clicks : ipc[c] \in {"idle", "done"}
  /\ imessage' = [embeds |-> embeds, components |-> TRUE]
  /\ ipc' = [c \in Clicks |-> "idle"]
  /\ iIn' = [c \in Clicks |-> NoClick]
  /\ idid' = [c \in Clicks |-> Nothing]

\* A member clicks a button of the message (it has its components) in a
\* guild: handle_button_interaction parses the custom id and looks at the
\* embed of the interaction's message.
ButtonClick(c, custom_id, permissions) ==
  /\ ipc[c] = "idle"
  /\ imessage.components
  /\ iIn' = [iIn EXCEPT ![c] = [custom_id |-> custom_id, permissions |-> permissions,
                                resolved |-> FALSE]]
  /\ ipc' = [ipc EXCEPT ![c] =
               IF custom_id \in ModerationCustomIds /\ get_broadcast_embed(imessage.embeds)
                 THEN "member" ELSE "done"]
  /\ UNCHANGED <<imessage, idid>>

\* interaction_guild_id.member(...) and can_moderate.
ButtonPermission(c, memberOk, cacheOk, permissionsOk) ==
  /\ ipc[c] = "member"
  /\ ~memberOk => (cacheOk /\ permissionsOk)
  /\ ~cacheOk => permissionsOk
  /\ iIn' = [iIn EXCEPT ![c].resolved = memberOk /\ cacheOk /\ permissionsOk]
  /\ ipc' = [ipc EXCEPT ![c] =
               IF memberOk /\ can_moderate(iIn[c].custom_id, cacheOk, permissionsOk,
                                           iIn[c].permissions)
                 THEN "target" ELSE "done"]
  /\ UNCHANGED <<imessage, idid>>

\* get_target_user: an Err ends the handler.
ButtonTarget(c, ok) ==
  /\ ipc[c] = "target"
  /\ ipc' = [ipc EXCEPT ![c] = IF ok THEN "moderate" ELSE "done"]
  /\ UNCHANGED <<imessage, iIn, idid>>

\* handle_moderation: nothing for no_action and without a log channel;
\* otherwise the request of the button and a message about its result.
ButtonModerate(c, logChannelOk, requestOk, sendOk) ==
  LET acts == iIn[c].custom_id # "no_action" /\ logChannelOk
  IN
  /\ ipc[c] = "moderate"
  /\ iIn[c].custom_id = "no_action" => logChannelOk
  /\ ~acts => (requestOk /\ sendOk)
  /\ idid' = [idid EXCEPT ![c] =
                [action |-> IF acts THEN iIn[c].custom_id ELSE "none",
                 ok |-> acts /\ requestOk,
                 posted |-> acts /\ sendOk,
                 edited |-> FALSE]]
  /\ ipc' = [ipc EXCEPT ![c] = "remove"]
  /\ UNCHANGED <<imessage, iIn>>

\* remove_buttons: message.edit(components(vec![])); a failure is logged.
ButtonRemove(c, ok) ==
  /\ ipc[c] = "remove"
  /\ imessage' = IF ok THEN [imessage EXCEPT !.components = FALSE] ELSE imessage
  /\ idid' = [idid EXCEPT ![c].edited = ok]
  /\ ipc' = [ipc EXCEPT ![c] = "done"]
  /\ UNCHANGED iIn

\* ------------------------------------------------------ the user commands
\* The users the admins add, and the guilds they are whitelisted for.
WhitelistUsers == {1, 2}
ConfigGuilds == {1, 2, 3}

InitCmdVars ==
  /\ whitelist = [u \in WhitelistUsers |-> {}]
  /\ server_configs = {}

\* INSERT INTO server_configs (server_id) ... ON CONFLICT DO NOTHING
create_default_if_not_exists(configs, g) == configs \cup {g}

\* DELETE FROM server_configs WHERE server_id = g AND no user lists g
delete_if_needed(users, configs, g) ==
  IF \E u \in WhitelistUsers : g \in users[u] THEN configs ELSE configs \ {g}

\* handle_server_config_updates: one create_default_if_not_exists for every
\* new id that is not an old one and one delete_if_needed for every old id
\* that is not a new one, joined by try_join; executed is the set of guilds
\* whose query ran before the first error ended the join.
handle_server_config_updates(users, configs, old_ids, new_ids, executed) ==
  LET add_res == {g \in new_ids \ old_ids : g \in executed}
      remove_res == {g \in old_ids \ new_ids :
                    g \in executed /\ delete_if_needed(users, configs, g) # configs}
  IN (configs \cup add_res) \ remove_res

\* /user add: UserModelController::create, then the configuration rows; an
\* error of the latter is logged.
UserAdd(u, guild_ids, executed) ==
  /\ whitelist[u] = {}
  /\ whitelist' = [whitelist EXCEPT ![u] = guild_ids]
  /\ server_configs' =
       handle_server_config_updates(whitelist', server_configs, {}, guild_ids, executed)

\* /user update: the user's row is read and rewritten, then the
\* configuration rows follow the difference.
UserUpdate(u, updated_ids, executed) ==
  /\ whitelist[u] # {}
  /\ whitelist' = [whitelist EXCEPT ![u] = updated_ids]
  /\ server_configs' =
       handle_server_config_updates(whitelist', server_configs, whitelist[u], updated_ids,
                                    executed)

\* /user remove: UserModelController::delete, then delete_if_needed for the
\* servers of the deleted row.
UserRemove(u, executed) ==
  /\ whitelist[u] # {}
  /\ whitelist' = [whitelist EXCEPT ![u] = {}]
  /\ server_configs' =
       handle_server_config_updates(whitelist', server_configs, whitelist[u], {}, executed)

\* ------------------------------------------------------- the scoreboards
\* Concurrent calls of create_or_increase_scoreboards for one reporter and
\* one guild, on a pool of connections.
NumScoreTasks == 2
ScoreTasks == 1..NumScoreTasks
NumConns == 2
Conns == 1..NumConns
MaxScoreCalls == 3

\* A connection outside a transaction.
Autocommit == [state |-> "idle", user |-> 0, guild |-> 0]

InitScoreVars ==
  /\ scpc = [t \in ScoreTasks |-> "idle"]
  /\ sres = [t \in ScoreTasks |-> [user |-> FALSE, guild |-> FALSE]]
  /\ conn = [c \in Conns |-> Autocommit]
  /\ user_scores = 0
  /\ guild_scores = 0
  /\ returned_ok = 0
  /\ returned_err = 0

\* A statement on connection c can write the row of the table unless another
\* connection holds an uncommitted write of it.
RowFree(c, table) ==
  \A o \in Conns \ {c} : conn[o][table] = 0

\* sqlx::query("BEGIN").execute(db_pool): the pool hands out one of its
\* connections for this statement.
ScoresBegin(t, c, ok) ==
  /\ scpc[t] = "idle"
  /\ returned_ok + returned_err + Cardinality({x \in ScoreTasks : scpc[x] # "idle"})
       < MaxScoreCalls
  /\ IF ok
       THEN /\ conn' = [conn EXCEPT ![c].state = IF @ = "idle" THEN "txn" ELSE @]
            /\ scpc' = [scpc EXCEPT ![t] = "user"]
            /\ UNCHANGED returned_err
       ELSE /\ returned_err' = returned_err + 1
            /\ UNCHANGED <<conn, scpc>>
  /\ UNCHANGED <<sres, user_scores, guild_scores, returned_ok>>

\* INSERT INTO user_scores ... DO UPDATE SET score = score + 1, executed on a
\* connection of the pool: in that connection's transaction when it has one
\* open, committed at once otherwise; it fails in an aborted transaction, and
\* a failure aborts the transaction of the connection.
ScoresUser(t, c, ok) ==
  /\ scpc[t] = "user"
  /\ ok => (conn[c].state # "aborted" /\ RowFree(c, "user"))
  /\ sres' = [sres EXCEPT ![t].user = ok]
  /\ scpc' = [scpc EXCEPT ![t] = "guild"]
  /\ conn' = [conn EXCEPT ![c] =
                IF conn[c].state = "idle" THEN @
                ELSE IF ok THEN [@ EXCEPT !.user = @ + 1]
                ELSE [@ EXCEPT !.state = "aborted"]]
  /\ user_scores' = IF ok /\ conn[c].state = "idle" THEN user_scores + 1 ELSE user_scores
  /\ UNCHANGED <<guild_scores, returned_ok, returned_err>>

\* INSERT INTO guild_scores ..., the same way.
ScoresGuild(t, c, ok) ==
  /\ scpc[t] = "guild"
  /\ ok => (conn[c].state # "aborted" /\ RowFree(c, "guild"))
  /\ sres' = [sres EXCEPT ![t].guild = ok]
  /\ scpc' = [scpc EXCEPT ![t] = "end"]
  /\ conn' = [conn EXCEPT ![c] =
                IF conn[c].state = "idle" THEN @
                ELSE IF ok THEN [@ EXCEPT !.guild = @ + 1]
                ELSE [@ EXCEPT !.state = "aborted"]]
  /\ guild_scores' = IF ok /\ conn[c].state = "idle" THEN guild_scores + 1 ELSE guild_scores
  /\ UNCHANGED <<user_scores, returned_ok, returned_err>>

\* ROLLBACK when user_res or guild_res is an error, COMMIT otherwise, again
\* on a connection of the pool; then the call returns.
ScoresEnd(t, c, ok) ==
  LET commit == sres[t].user /\ sres[t].guild /\ conn[c].state = "txn"
  IN
  /\ scpc[t] = "end"
  /\ scpc' = [scpc EXCEPT ![t] = "idle"]
  /\ sres' = [sres EXCEPT ![t] = [user |-> FALSE, guild |-> FALSE]]
  /\ conn' = IF ok THEN [conn EXCEPT ![c] = Autocommit] ELSE conn
  /\ user_scores' = IF ok /\ commit THEN user_scores + conn[c].user ELSE user_scores
  /\ guild_scores' = IF ok /\ commit THEN guild_scores + conn[c].guild ELSE guild_scores
  /\ IF ok /\ sres[t].user /\ sres[t].guild
       THEN returned_ok' = returned_ok + 1 /\ UNCHANGED returned_err
       ELSE returned_err' = returned_err + 1 /\ UNCHANGED returned_ok

\* ------------------------------------------------------- parse_snowflake
\* Strings are sequences of their characters; numbers are kept as decimal
\* numerals without leading zeros (<<>> is zero), so that the full width of
\* u64 is present.
DigitChars == <<"0", "1", "2", "3", "4", "5", "6", "7", "8", "9">>
IsDigit(c) == \E i \in 1..Len(DigitChars) : DigitChars[i] = c
DigitValue(c) == (CHOOSE i \in 1..Len(DigitChars) : DigitChars[i] = c) - 1

\* u64::MAX
U64Max == <<"1", "8", "4", "4", "6", "7", "4", "4", "0", "7", "3", "7", "0", "9", "5", "5", "1", "6", "1", "5">>

\* The strings parse_snowflake is called with: every string of up to
\* MaxStrLen characters of SnowflakeChars, and some long ones.
MaxStrLen == 3
SnowflakeChars == {"0", "1", "9", "+", "-", "a"}
LongStrings ==
  {<<"4", "7", "1", "0", "2", "6", "1", "8", "1", "2", "1", "1", "4", "2", "2", "7", "2", "1">>,
   U64Max,
   <<"1", "8", "4", "4", "6", "7", "4", "4", "0", "7", "3", "7", "0", "9", "5", "5", "1", "6", "1", "6">>,
   <<"9", "9", "9", "9", "9", "9", "9", "9", "9", "9", "9", "9", "9", "9", "9", "9", "9", "9", "9", "9">>,
   <<"1", "0", "0", "0", "0", "0", "0", "0", "0", "0", "0", "0", "0", "0", "0", "0", "0", "0", "0", "0", "0">>,
   <<"+">> \o U64Max,
   <<"0", "0">> \o U64Max,
   <<"-">> \o U64Max,
   <<"4", "7", "1", "0", "2", "6", "1", "8", "1", "2", "1", "1", "4", "2", "2", "7", "2", "1">> \o <<" ">>}
SnowflakeStrings ==
  UNION {[1..n -> SnowflakeChars] : n \in 0..MaxStrLen} \cup LongStrings

RECURSIVE StripZeros(_)
StripZeros(digits) ==
  IF digits = <<>> THEN <<>>
  ELSE IF Head(digits) = "0" THEN StripZeros(Tail(digits))
  ELSE digits

\* a > b for numerals of the same length
RECURSIVE Greater(_, _)
Greater(a, b) ==
  IF a = <<>> THEN FALSE
  ELSE IF Head(a) # Head(b) THEN DigitValue(Head(a)) > DigitValue(Head(b))
  ELSE Greater(Tail(a), Tail(b))

ParseErr == [ok |-> FALSE, value |-> <<>>]

\* u64::from_str: the empty string, a lone sign, a character that is no
\* digit and a value above u64::MAX are errors; one leading "+" is accepted.
u64_from_str(src) ==
  IF src = <<>> \/ src = <<"+">> \/ src = <<"-">> THEN ParseErr
  ELSE LET digits == IF Head(src) = "+" THEN Tail(src) ELSE src
           value == StripZeros(digits)
       IN IF \E i \in 1..Len(digits) : ~IsDigit(digits[i]) THEN ParseErr
          ELSE IF Len(value) > Len(U64Max)
                  \/ (Len(value) = Len(U64Max) /\ Greater(value, U64Max)) THEN ParseErr
          ELSE [ok |-> TRUE, value |-> value]

\* Mutant: zero is let through.
NonZeroU64_from_str_zero(src) == u64_from_str(src)

\* NonZeroU64::from_str: u64::from_str, and zero is an error.
NonZeroU64_from_str(src) ==
  IF u64_from_str(src).ok /\ u64_from_str(src).value = <<>> THEN ParseErr
  ELSE u64_from_str(src)

\* parse_snowflake: NonZeroU64::from_str with the error wrapped.
parse_snowflake(snowflake) == NonZeroU64_from_str(snowflake)

InitParseVars ==
  /\ ppc = "idle"
  /\ psrc = <<>>
  /\ pres = ParseErr

ParseCall(snowflake) ==
  /\ ppc = "idle"
  /\ ppc' = "parsed"
  /\ psrc' = snowflake
  /\ pres' = parse_snowflake(snowflake)

ParseReturn ==
  /\ ppc = "parsed"
  /\ ppc' = "idle"
  /\ psrc' = <<>>
  /\ pres' = ParseErr

\* ------------------------------------- handle_message and the queue mutex
\* Three calls of handle_message, one message each, step by step.
NumHandlers == 3
Handlers == 1..NumHandlers
QueuePosts == {<<1, "x">>}
QueueMaxTime == 60
\* The honeypot_channel_id values of server_configs; they stay as they are.
QueueStored == {1}
QueueSteps == {30}
NoQueueMsg ==
  [id |-> 0, user_id |-> 0, content |-> "", channel_id |-> 0, is_in_honeypot |-> FALSE,
   timestamp |-> 0]

InitQVars ==
  /\ qpc = [h \in Handlers |-> "idle"]
  /\ qmsg = [h \in Handlers |-> NoQueueMsg]
  /\ qowner = None
  /\ qnow = [h \in Handlers |-> 0]
  /\ hqueue = <<>>
  /\ qremoved = [h \in Handlers |-> <<>>]
  /\ qrep = [h \in Handlers |-> FALSE]
  /\ qlog = <<>>
  /\ qclock = 0
  /\ qchannels = QueueStored
  /\ qrpc = "idle"

QueueTick(d) ==
  /\ qclock + d <= QueueMaxTime
  /\ qclock' = qclock + d
  /\ UNCHANGED <<qpc, qmsg, qowner, qnow, hqueue, qremoved, qrep, qlog, qchannels, qrpc>>

\* handle_message is called for a guild message that is not the bot's: the
\* channel is looked up in honeypot_channels; a honeypot message is deleted
\* first.
QueueEnter(h, u, c, ch) ==
  /\ qpc[h] = "idle"
  /\ u # BotId
  /\ qmsg' = [qmsg EXCEPT ![h] =
                [id |-> h, user_id |-> u, content |-> c, channel_id |-> ch,
                 is_in_honeypot |-> ch \in qchannels, timestamp |-> 0]]
  /\ qpc' = [qpc EXCEPT ![h] = IF ch \in qchannels THEN "delete" ELSE "lock"]
  /\ UNCHANGED <<qowner, qnow, hqueue, qremoved, qrep, qlog, qclock, qchannels, qrpc>>

\* delete_msg_from_honeypot(...).await
QueueDelete(h) ==
  /\ qpc[h] = "delete"
  /\ qpc' = [qpc EXCEPT ![h] = "lock"]
  /\ UNCHANGED <<qmsg, qowner, qnow, hqueue, qremoved, qrep, qlog, qclock, qchannels, qrpc>>

\* Mutant: the lock is handed out whoever holds it.
QueueUnlockedAlways(m) == TRUE

\* The mutex can be taken.
QueueUnlocked(m) == m = None

\* queue.lock().await, then Instant::now()
QueueLock(h) ==
  /\ qpc[h] = "lock"
  /\ QueueUnlocked(qowner)
  /\ qowner' = h
  /\ qnow' = [qnow EXCEPT ![h] = qclock]
  /\ qpc' = [qpc EXCEPT ![h] = "evict"]
  /\ UNCHANGED <<qmsg, hqueue, qremoved, qrep, qlog, qclock, qchannels, qrpc>>

\* remove_old_messages(&mut queue, now)
QueueEvict(h) ==
  /\ qpc[h] = "evict"
  /\ qremoved' = [qremoved EXCEPT ![h] = remove_old_messages(hqueue, qnow[h])]
  /\ hqueue' = remaining(hqueue, qnow[h])
  /\ qpc' = [qpc EXCEPT ![h] = "scan"]
  /\ UNCHANGED <<qmsg, qowner, qnow, qrep, qlog, qclock, qchannels, qrpc>>

\* should_report(&queue, &new_honeypot_msg)
QueueScan(h) ==
  /\ qpc[h] = "scan"
  /\ qrep' = [qrep EXCEPT ![h] = should_report(hqueue, [qmsg[h] EXCEPT !.timestamp = qnow[h]])]
  /\ qpc' = [qpc EXCEPT ![h] = "push"]
  /\ UNCHANGED <<qmsg, qowner, qnow, hqueue, qremoved, qlog, qclock, qchannels, qrpc>>

\* queue.push(new_honeypot_msg)
QueuePush(h) ==
  /\ qpc[h] = "push"
  /\ hqueue' = Append(hqueue, [qmsg[h] EXCEPT !.timestamp = qnow[h]])
  /\ qlog' = Append(qlog, [msg |-> [qmsg[h] EXCEPT !.timestamp = qnow[h]],
                            should_report |-> qrep[h]])
  /\ qpc' = [qpc EXCEPT ![h] = "drop"]
  /\ UNCHANGED <<qmsg, qowner, qnow, qremoved, qrep, qclock, qchannels, qrpc>>

\* drop(queue)
QueueDrop(h) ==
  /\ qpc[h] = "drop"
  /\ qowner' = IF qowner = h THEN None ELSE qowner
  /\ qpc' = [qpc EXCEPT ![h] = "join"]
  /\ UNCHANGED <<qmsg, qnow, hqueue, qremoved, qrep, qlog, qclock, qchannels, qrpc>>

\* tokio::join!(maybe_report_bad_actor, timeout_honeypot_trolls): the BadActor,
\* the broadcast and the timeouts.
QueueJoin(h) ==
  /\ qpc[h] = "join"
  /\ qpc' = [qpc EXCEPT ![h] = "done"]
  /\ UNCHANGED <<qmsg, qowner, qnow, hqueue, qremoved, qrep, qlog, qclock, qchannels, qrpc>>

\* populate_honeypot_channels, called by a config or user command while the
\* rows stay as they are: channels.clear() ...
QueueRefreshClear ==
  /\ qrpc = "idle"
  /\ qchannels' = {}
  /\ qrpc' = "select"
  /\ UNCHANGED <<qpc, qmsg, qowner, qnow, hqueue, qremoved, qrep, qlog, qclock>>

\* ... and, after the SELECT was answered, the insert of every stored id.
QueueRefreshInsert ==
  /\ qrpc = "select"
  /\ qchannels' = qchannels \cup QueueStored
  /\ qrpc' = "idle"
  /\ UNCHANGED <<qpc, qmsg, qowner, qnow, hqueue, qremoved, qrep, qlog, qclock>>

\* --------------------------------- the executions of one broadcast
\* No webhook has been executed when broadcast is called.
InitTallyVars == wtotal = NoExecutions

\* -------------------------------------------------- FileManager::save
\* File names as sequences of characters.
Jpeg == <<"j", "p", "e", "g">>
Jpg == <<"j", "p", "g">>
Png == <<"p", "n", "g">>
Gif == <<"g", "i", "f">>
FileNames ==
  {<<"a", ".">> \o ext : ext \in {Jpeg, Jpg, Png, Gif, <<>>}} \cup
  {Png, <<>>, <<"a">>, <<"a", ".", "b", ".">> \o Jpg, <<"a", ".">> \o Png \o <<".">> \o Gif}
\* Attachment.size in bytes
MaxFileSize == 5000000
FileSizes == {0, MaxFileSize - 1, MaxFileSize, MaxFileSize + 1}
FileUsers == {1, 2}
\* format!("{}-{}-{}", now.year(), now.month(), now.day())
Date == "2024-1-1"
NoAttachmentIn ==
  [filename |-> <<>>, size |-> 0, user_id |-> 0, downloadOk |-> FALSE, writeOk |-> FALSE]
NoSaveResult == [ok |-> FALSE, file_name |-> <<>>]

InitFileVars ==
  /\ fpc = "idle"
  /\ fIn = NoAttachmentIn
  /\ fres = NoSaveResult
  /\ files = {}

\* split('.') and last(): what follows the last dot, the whole name when
\* there is none (never None: split yields at least one piece).
get_file_extension(file_name) ==
  LET dots == {i \in 1..Len(file_name) : file_name[i] = "."}
      start == IF dots = {} THEN 1 ELSE (CHOOSE i \in dots : \A j \in dots : j <= i) + 1
  IN SubSeq(file_name, start, Len(file_name))

\* file_ext != "jpeg" || file_ext != "jpg" || file_ext != "png"
extension_rejected(file_ext) == file_ext # Jpeg \/ file_ext # Jpg \/ file_ext # Png

\* format!("{date}_{}.{file_ext}", user_id)
file_name_of(user_id, file_ext) == <<Date, user_id, file_ext>>

\* save: the two bail! checks, then download and write, each with ?.
save(attachment) ==
  LET file_ext == get_file_extension(attachment.filename)
      file_name == file_name_of(attachment.user_id, file_ext)
  IN IF extension_rejected(file_ext) THEN [res |-> NoSaveResult, wrote |-> {}]
     ELSE IF attachment.size >= MaxFileSize THEN [res |-> NoSaveResult, wrote |-> {}]
     ELSE IF ~attachment.downloadOk THEN [res |-> NoSaveResult, wrote |-> {}]
     ELSE IF ~attachment.writeOk THEN [res |-> NoSaveResult, wrote |-> {}]
     ELSE [res |-> [ok |-> TRUE, file_name |-> file_name], wrote |-> {file_name}]

\* FileManager::save runs for an attachment.
SaveCall(filename, size, user_id, downloadOk, writeOk) ==
  LET attachment == [filename |-> filename, size |-> size, user_id |-> user_id,
                     downloadOk |-> downloadOk, writeOk |-> writeOk]
  IN /\ fpc = "idle"
     /\ fIn' = attachment
     /\ fres' = save(attachment).res
     /\ files' = files \cup save(attachment).wrote
     /\ fpc' = "done"

\* The caller has the Result.
SaveReturn ==
  /\ fpc = "done"
  /\ fpc' = "idle"
  /\ fIn' = NoAttachmentIn
  /\ fres' = NoSaveResult
  /\ UNCHANGED files

\* ------------------------------------------------ the config update command
NumUpdaters == 2
Updaters == 1..NumUpdaters
\* Option<T>: None, Some(v)
Omitted == <<>>
Some(v) == <<v>>
\* A ban reason: its text and the number of further characters that are no
\* braces (one byte each).
MaxReasonLen == 500
ReasonOk == [text |-> <<"{", "i", "d", "}">>, pad |-> MaxReasonLen - 4]
ReasonUnbalanced == [text |-> <<"}", "{">>, pad |-> 0]
ReasonLong == [text |-> <<"{", "i", "d", "}">>, pad |-> MaxReasonLen - 3]
\* The options of the command; the ones that are never given stay out of
\* the sets below.
UpdateOptions ==
  [log_channel : {Omitted, Some([id |-> 2, kind |-> "Text"]), Some([id |-> 3, kind |-> "Voice"])},
   ping_users : {Omitted, Some(TRUE)},
   ping_role : {Omitted},
   spam_action_level : {Omitted},
   impersonation_action_level : {Omitted},
   bigotry_action_level : {Omitted},
   honeypot_action_level : {Omitted},
   ignored_roles : {Omitted},
   ban_reason : {Omitted, Some(ReasonOk), Some(ReasonUnbalanced), Some(ReasonLong)},
   honeypot_timeout : {Omitted, Some(0)}]
NoUpdateOptions ==
  [log_channel |-> Omitted, ping_users |-> Omitted, ping_role |-> Omitted,
   spam_action_level |-> Omitted, impersonation_action_level |-> Omitted,
   bigotry_action_level |-> Omitted, honeypot_action_level |-> Omitted,
   ignored_roles |-> Omitted, ban_reason |-> Omitted, honeypot_timeout |-> Omitted]
\* The row of the guild before any update: no log channel, no ping role, no
\* ban reason, every level Notify, a honeypot timeout of 10 minutes.
StoredRow ==
  [log_channel |-> Omitted, ping_users |-> FALSE, ping_role |-> Omitted,
   spam_action_level |-> "Notify", impersonation_action_level |-> "Notify",
   bigotry_action_level |-> "Notify", honeypot_action_level |-> "Notify",
   ignored_roles |-> <<>>, ban_reason |-> Omitted, honeypot_timeout |-> 10]

InitUpdVars ==
  /\ upc = [c \in Updaters |-> "idle"]
  /\ uIn = [c \in Updaters |-> NoUpdateOptions]
  /\ uprev = [c \in Updaters |-> StoredRow]
  /\ ureply = [c \in Updaters |-> "none"]
  /\ crow = StoredRow

\* reason.len()
reason_len(r) == Len(r.text) + r.pad

RECURSIVE brace_scan(_, _)
\* The loop of check_ban_reason over the characters from position i on with
\* the count so far: FALSE as soon as the count is negative.
brace_scan(chars, brace_count) ==
  IF chars = <<>> THEN brace_count = 0
  ELSE LET c == Head(chars)
           next_count == IF c = "{" THEN brace_count + 1
                         ELSE IF c = "}" THEN brace_count - 1 ELSE brace_count
       IN IF next_count < 0 THEN FALSE ELSE brace_scan(Tail(chars), next_count)

check_ban_reason(r) == brace_scan(r.text, 0)

\* What update answers before it touches the database: "" when it goes on.
update_rejection(options) ==
  IF options.log_channel # Omitted /\ options.log_channel[1].kind # "Text"
    THEN "not_a_text_channel"
  ELSE IF options.ban_reason # Omitted /\ reason_len(options.ban_reason[1]) > MaxReasonLen
    THEN "reason_too_long"
  ELSE IF options.ban_reason # Omitted /\ ~check_ban_reason(options.ban_reason[1])
    THEN "reason_wrongly_formatted"
  ELSE ""

\* Option::unwrap_or(previous)
unwrap_or(option, previous) == IF option = Omitted THEN previous ELSE option[1]

\* The values ServerConfigModelController::update binds to its UPDATE: the
\* given value where there is one, the value of the row it read otherwise.
\* The statement sets no honeypot timeout.
updated_row(current, previous, options) ==
  [log_channel |-> IF options.log_channel = Omitted THEN previous.log_channel
                   ELSE Some(options.log_channel[1].id),
   ping_users |-> unwrap_or(options.ping_users, previous.ping_users),
   ping_role |-> IF options.ping_role = Omitted THEN previous.ping_role
                 ELSE Some(options.ping_role[1]),
   spam_action_level |-> unwrap_or(options.spam_action_level, previous.spam_action_level),
   impersonation_action_level |->
     unwrap_or(options.impersonation_action_level, previous.impersonation_action_level),
   bigotry_action_level |->
     unwrap_or(options.bigotry_action_level, previous.bigotry_action_level),
   honeypot_action_level |->
     unwrap_or(options.honeypot_action_level, previous.honeypot_action_level),
   ignored_roles |-> unwrap_or(options.ignored_roles, previous.ignored_roles),
   ban_reason |-> IF options.ban_reason = Omitted THEN previous.ban_reason
                  ELSE Some(options.ban_reason[1]),
   honeypot_timeout |-> current.honeypot_timeout]

\* The command runs up to its call of ServerConfigModelController::update,
\* or answers and returns.
ConfigUpdateStart(c, options) ==
  /\ upc[c] = "idle"
  /\ IF update_rejection(options) # ""
       THEN /\ upc' = [upc EXCEPT ![c] = "done"]
            /\ ureply' = [ureply EXCEPT ![c] = update_rejection(options)]
            /\ uIn' = uIn
       ELSE /\ upc' = [upc EXCEPT ![c] = "select"]
            /\ uIn' = [uIn EXCEPT ![c] = options]
            /\ ureply' = ureply
  /\ UNCHANGED <<uprev, crow>>

\* SELECT * FROM server_configs WHERE server_id = $1
ConfigUpdateSelect(c, ok) ==
  /\ upc[c] = "select"
  /\ IF ok
       THEN /\ uprev' = [uprev EXCEPT ![c] = crow]
            /\ upc' = [upc EXCEPT ![c] = "update"]
            /\ UNCHANGED <<uIn, ureply>>
       ELSE /\ upc' = [upc EXCEPT ![c] = "done"]
            /\ ureply' = [ureply EXCEPT ![c] = "error"]
            /\ uIn' = [uIn EXCEPT ![c] = NoUpdateOptions]
            /\ uprev' = uprev
  /\ UNCHANGED crow

\* UPDATE server_configs SET ... RETURNING *, then the reply.
ConfigUpdateWrite(c, ok) ==
  /\ upc[c] = "update"
  /\ crow' = IF ok THEN updated_row(crow, uprev[c], uIn[c]) ELSE crow
  /\ ureply' = [ureply EXCEPT ![c] = IF ok THEN "updated" ELSE "error"]
  /\ upc' = [upc EXCEPT ![c] = "done"]
  /\ uIn' = [uIn EXCEPT ![c] = NoUpdateOptions]
  /\ uprev' = [uprev EXCEPT ![c] = StoredRow]

\* The command is over.
ConfigUpdateReturn(c) ==
  /\ upc[c] = "done"
  /\ upc' = [upc EXCEPT ![c] = "idle"]
  /\ ureply' = [ureply EXCEPT ![c] = "none"]
  /\ UNCHANGED <<uIn, uprev, crow>>

\* ----------------------------------------------------------- specifications
InitAll == InitLockVars /\ InitDbVars /\ InitHpVars /\ InitModVars /\ InitRegVars /\ InitWhVars /\ InitSendVars /\ InitBcVars /\ InitTrollVars /\ InitBtnVars /\ InitCmdVars /\ InitScoreVars /\ InitParseVars /\ InitQVars /\ InitTallyVars /\ InitFileVars /\ InitUpdVars

\* The lock alone, with callers that take the guard and drop it.
NextLocks ==
  \/ \E t \in Callers : (\E u \in Users : Call(t, u)) /\ UNCHANGED <<dbVars, hpVars, modVars, regVars, whVars, sendVars, bcVars, trollVars, btnVars, cmdVars, scoreVars, parseVars, qVars, tallyVars, fileVars, updVars>>
  \/ \E t \in Callers : LockStep(t) /\ UNCHANGED <<dbVars, hpVars, modVars, regVars, whVars, sendVars, bcVars, trollVars, btnVars, cmdVars, scoreVars, parseVars, qVars, tallyVars, fileVars, updVars>>
  \/ \E t \in Callers : UseGuard(t) /\ UNCHANGED <<dbVars, hpVars, modVars, regVars, whVars, sendVars, bcVars, trollVars, btnVars, cmdVars, scoreVars, parseVars, qVars, tallyVars, fileVars, updVars>>

SpecLocks == InitAll /\ [][NextLocks]_vars

\* Every step of a task is eventually taken when it is possible again and
\* again: tokio polls every woken task once a worker is free, a thread parked
\* on a shard guard gets it once it is released, and every caller's guard
\* goes out of scope.
FairLocks == \A t \in Callers : SF_vars((LockStep(t) \/ UseGuard(t)) /\ UNCHANGED <<dbVars, hpVars, modVars, regVars, whVars, sendVars, bcVars, trollVars, btnVars, cmdVars, scoreVars, parseVars, qVars, tallyVars, fileVars, updVars>>)
FairSpecLocks == SpecLocks /\ FairLocks

\* Report commands, honeypot reports and deactivations on one table.
NextReports ==
  \/ \E t \in Reporters : (\E u \in Users : ReportStart(t, u)) /\ UNCHANGED <<hpVars, modVars, regVars, whVars, sendVars, bcVars, trollVars, btnVars, cmdVars, scoreVars, parseVars, qVars, tallyVars, fileVars, updVars>>
  \/ \E t \in Reporters : LockStep(t) /\ UNCHANGED <<dbVars, hpVars, modVars, regVars, whVars, sendVars, bcVars, trollVars, btnVars, cmdVars, scoreVars, parseVars, qVars, tallyVars, fileVars, updVars>>
  \/ \E t \in Reporters : ReportStep(t) /\ UNCHANGED <<hpVars, modVars, regVars, whVars, sendVars, bcVars, trollVars, btnVars, cmdVars, scoreVars, parseVars, qVars, tallyVars, fileVars, updVars>>
  \/ \E h \in HpTasks : HpStep(h) /\ UNCHANGED <<lockVars, hpVars, modVars, regVars, whVars, sendVars, bcVars, trollVars, btnVars, cmdVars, scoreVars, parseVars, qVars, tallyVars, fileVars, updVars>>
  \/ DeactStep /\ UNCHANGED <<lockVars, hpVars, modVars, regVars, whVars, sendVars, bcVars, trollVars, btnVars, cmdVars, scoreVars, parseVars, qVars, tallyVars, fileVars, updVars>>

SpecReports == InitAll /\ [][NextReports]_vars

\* ------------------------------------------------------- claims: the lock
\* A task has the guard lock_user_id returned and has not begun to drop it.
HoldPcs == {"held", "collect", "create", "broadcast", "exit"}
Holds(t) == pc[t] \in HoldPcs

MutualExclusion ==
  \A t \in Callers : \A o \in Callers \ {t} :
    (Holds(t) /\ Holds(o)) => target[t] # target[o]

\* A waiter has been handed the permit of its mutex (its lock_owned() is
\* complete, the task only has to be polled) or has the guard already.
Granted(t) == pc[t] \in {"waiting"} \cup HoldPcs /\ owner[arc[t]] = t

AcquireAfterDrop ==
  \A t \in Callers : \A o \in Callers \ {t} :
    (Granted(t) /\ Holds(o)) => target[t] # target[o]

\* C1: for every user id, at most one caller holds the guard returned by
\* lock_user_id at any time, and the acquisition of a second caller is
\* completed (the permit is handed to it) only when no other caller holds
\* the guard of that user id any more.
C1_MutualExclusion == MutualExclusion /\ AcquireAfterDrop

\* C1 witness: the guard was handed over - a second caller holds the guard
\* of the mutex whose previous holder is still finishing its drop.
C1_Witness ==
  \E t \in Callers : \E o \in Callers \ {t} :
    /\ pc[t] = "held" /\ pc[o] = "drop_arc"
    /\ arc[t] = arc[o] /\ target[t] = target[o]

\* Some task is between its call of lock_user_id(u) and the end of the drop
\* of the guard it got.
InUse(u) == \E t \in Callers : target[t] = u /\ pc[t] # "idle"

\* C4: whenever no task holds, awaits or is still dropping the lock of user
\* id u, the lock map has no entry for u.
C4_LockCleanup == \A u \in Users : ~InUse(u) => locks[u] = None

\* C4 witness: locks were taken and dropped again (generation ids were
\* handed out, for both users or twice for one), every task is done, and the
\* map is empty.
C4_Witness ==
  /\ nextId >= 2
  /\ \A t \in Callers : pc[t] = "idle"
  /\ \A u \in Users : locks[u] = None

\* C5: every call of lock_user_id eventually returns a guard (holders drop
\* their guards: FairLocks).
C5_EveryCallReturns ==
  \A t \in Callers : (pc[t] \in {"entry", "lock", "waiting"}) ~> (pc[t] = "held")

\* The honeypot: messages, the clock and changes of the honeypot channels.
HpReport(h) ==
  \/ \E queryOk \in BOOLEAN : HpCheck(h, queryOk)
  \/ \E createOk \in BOOLEAN, botUserOk \in BOOLEAN : HpCreate(h, createOk, botUserOk)
  \/ HpBroadcast(h)

NextHoneypot ==
  \/ (\E d \in Steps : Tick(d)) /\ UNCHANGED <<lockVars, dbVars, modVars, regVars, whVars, sendVars, bcVars, trollVars, btnVars, cmdVars, scoreVars, parseVars, qVars, tallyVars, fileVars, updVars>>
  \/ (\E p \in Posts, ch \in Channels : Receive(p[1], p[2], ch))
       /\ UNCHANGED <<lockVars, dbVars, modVars, regVars, whVars, sendVars, bcVars, trollVars, btnVars, cmdVars, scoreVars, parseVars, qVars, tallyVars, fileVars, updVars>>
  \/ (\E m \in inflight, h \in HpTasks : Handle(m, h)) /\ UNCHANGED <<lockVars, modVars, regVars, whVars, sendVars, bcVars, trollVars, btnVars, cmdVars, scoreVars, parseVars, qVars, tallyVars, fileVars, updVars>>
  \/ (\E h \in HpTasks : HpReport(h)) /\ UNCHANGED <<lockVars, hpVars, modVars, regVars, whVars, sendVars, bcVars, trollVars, btnVars, cmdVars, scoreVars, parseVars, qVars, tallyVars, fileVars, updVars>>
  \/ (\E g \in Guilds, ch \in HoneypotChoices, ok \in BOOLEAN : ChannelUpdate(g, ch, ok))
       /\ UNCHANGED <<lockVars, dbVars, modVars, regVars, whVars, sendVars, bcVars, trollVars, btnVars, cmdVars, scoreVars, parseVars, qVars, tallyVars, fileVars, updVars>>
  \/ PopulateClear /\ UNCHANGED <<lockVars, dbVars, modVars, regVars, whVars, sendVars, bcVars, trollVars, btnVars, cmdVars, scoreVars, parseVars, qVars, tallyVars, fileVars, updVars>>
  \/ PopulateInsert /\ UNCHANGED <<lockVars, dbVars, modVars, regVars, whVars, sendVars, bcVars, trollVars, btnVars, cmdVars, scoreVars, parseVars, qVars, tallyVars, fileVars, updVars>>

SpecHoneypot == InitAll /\ [][NextHoneypot]_vars

\* One call of moderate after the other, over every broadcast type, category,
\* configuration and state of the listener guild.
NextModerate ==
  \/ /\ mpc = "idle"
     /\ \E bt \in BroadcastTypes, at \in ActorTypes, id \in BadActorIds, cfg \in ServerConfigs :
          ModerateStart(bt, at, id, cfg)
     /\ UNCHANGED <<lockVars, dbVars, hpVars, regVars, whVars, sendVars, bcVars, trollVars, btnVars, cmdVars, scoreVars, parseVars, qVars, tallyVars, fileVars, updVars>>
  \/ (\E is_member \in BOOLEAN, roles \in SUBSET Roles, ok \in BOOLEAN :
        ModerateLookup(is_member, roles, ok))
       /\ UNCHANGED <<lockVars, dbVars, hpVars, regVars, whVars, sendVars, bcVars, trollVars, btnVars, cmdVars, scoreVars, parseVars, qVars, tallyVars, fileVars, updVars>>
  \/ (\E mutOk \in BOOLEAN, unbanOk \in BOOLEAN, sendOk \in BOOLEAN :
        ModerateAct(mutOk, unbanOk, sendOk))
       /\ UNCHANGED <<lockVars, dbVars, hpVars, regVars, whVars, sendVars, bcVars, trollVars, btnVars, cmdVars, scoreVars, parseVars, qVars, tallyVars, fileVars, updVars>>
  \/ ModerateReturn /\ UNCHANGED <<lockVars, dbVars, hpVars, regVars, whVars, sendVars, bcVars, trollVars, btnVars, cmdVars, scoreVars, parseVars, qVars, tallyVars, fileVars, updVars>>

SpecModerate == InitAll /\ [][NextModerate]_vars

\* Calls of get_valid_listeners over every table and every state of the
\* log channels.
NextListeners ==
  \/ (\E table \in [ListenerGuilds -> RowKinds] : ListenersStart(table))
       /\ UNCHANGED <<lockVars, dbVars, hpVars, modVars, whVars, sendVars, bcVars, trollVars, btnVars, cmdVars, scoreVars, parseVars, qVars, tallyVars, fileVars, updVars>>
  \/ (\E queryOk \in BOOLEAN : ListenersGetAll(queryOk))
       /\ UNCHANGED <<lockVars, dbVars, hpVars, modVars, whVars, sendVars, bcVars, trollVars, btnVars, cmdVars, scoreVars, parseVars, qVars, tallyVars, fileVars, updVars>>
  \/ (\E g \in ListenerGuilds, channel \in ChannelKinds, hydrated \in BOOLEAN :
        ListenersResolve(g, channel, hydrated))
       /\ UNCHANGED <<lockVars, dbVars, hpVars, modVars, whVars, sendVars, bcVars, trollVars, btnVars, cmdVars, scoreVars, parseVars, qVars, tallyVars, fileVars, updVars>>
  \/ ListenersCollected /\ UNCHANGED <<lockVars, dbVars, hpVars, modVars, whVars, sendVars, bcVars, trollVars, btnVars, cmdVars, scoreVars, parseVars, qVars, tallyVars, fileVars, updVars>>
  \/ ListenersReturn /\ UNCHANGED <<lockVars, dbVars, hpVars, modVars, whVars, sendVars, bcVars, trollVars, btnVars, cmdVars, scoreVars, parseVars, qVars, tallyVars, fileVars, updVars>>

SpecListeners == InitAll /\ [][NextListeners]_vars

\* Calls of broadcast_to_webhooks over every table.
NextWebhooks ==
  \/ (\E table \in [WebhookRows -> UrlKinds] : WebhooksStart(table))
       /\ UNCHANGED <<lockVars, dbVars, hpVars, modVars, regVars, sendVars, bcVars, trollVars, btnVars, cmdVars, scoreVars, parseVars, qVars, tallyVars, fileVars, updVars>>
  \/ (\E queryOk \in BOOLEAN : WebhooksFetch(queryOk))
       /\ UNCHANGED <<lockVars, dbVars, hpVars, modVars, regVars, sendVars, bcVars, trollVars, btnVars, cmdVars, scoreVars, parseVars, qVars, tallyVars, fileVars, updVars>>
  \/ WebhooksResolve /\ UNCHANGED <<lockVars, dbVars, hpVars, modVars, regVars, sendVars, bcVars, trollVars, btnVars, cmdVars, scoreVars, parseVars, qVars, tallyVars, fileVars, updVars>>
  \/ (\E w \in WebhookRows, ok \in BOOLEAN : WebhooksExecute(w, ok))
       /\ UNCHANGED <<lockVars, dbVars, hpVars, modVars, regVars, sendVars, bcVars, trollVars, btnVars, cmdVars, scoreVars, parseVars, qVars, tallyVars, fileVars, updVars>>
  \/ WebhooksExecuted /\ UNCHANGED <<lockVars, dbVars, hpVars, modVars, regVars, sendVars, bcVars, trollVars, btnVars, cmdVars, scoreVars, parseVars, qVars, tallyVars, fileVars, updVars>>
  \/ WebhooksReturn /\ UNCHANGED <<lockVars, dbVars, hpVars, modVars, regVars, sendVars, bcVars, trollVars, btnVars, cmdVars, scoreVars, parseVars, qVars, tallyVars, fileVars, updVars>>

SpecWebhooks == InitAll /\ [][NextWebhooks]_vars

\* Calls of send_broadcast_message over every broadcast type, category,
\* configuration and whitelist.
NextSend ==
  \/ /\ spc = "idle"
     /\ \E bt \in BroadcastTypes, at \in ActorTypes, origin \in ListenerGuilds,
           attachment \in Attachments, cfg \in SendConfigs, whitelisted \in Whitelists,
           first \in {1, 2} :
          SendStart(bt, at, origin, attachment, cfg, whitelisted, first)
     /\ UNCHANGED <<lockVars, dbVars, hpVars, modVars, regVars, whVars, bcVars, trollVars, btnVars, cmdVars, scoreVars, parseVars, qVars, tallyVars, fileVars, updVars>>
  \/ (\E ok \in BOOLEAN : SendDeliver(ok))
       /\ UNCHANGED <<lockVars, dbVars, hpVars, modVars, regVars, whVars, bcVars, trollVars, btnVars, cmdVars, scoreVars, parseVars, qVars, tallyVars, fileVars, updVars>>
  \/ SendReturn /\ UNCHANGED <<lockVars, dbVars, hpVars, modVars, regVars, whVars, bcVars, trollVars, btnVars, cmdVars, scoreVars, parseVars, qVars, tallyVars, fileVars, updVars>>

SpecSend == InitAll /\ [][NextSend]_vars

\* Calls of broadcast: a Report or a Deactivate of a spam bad actor reported
\* in guild 1, over two guilds with a stored configuration; guild 2 notifies,
\* kicks or bans, and the target may have a role that is not ignored there.
NextBroadcast ==
  \/ (\E bt \in {"Report", "Deactivate"}, level \in {"Notify", "Kick", "Ban"},
         members \in {{1}, {1, 2}} :
        BroadcastStart(bt, 1, [g \in ListenerGuilds |-> IF g = 1 THEN "Notify" ELSE level],
                       members))
       /\ UNCHANGED <<lockVars, dbVars, hpVars, modVars, whVars, sendVars, trollVars, btnVars, cmdVars, scoreVars, parseVars, qVars, tallyVars, fileVars, updVars>>
  \/ (\E queryOk \in BOOLEAN : ListenersGetAll(queryOk))
       /\ UNCHANGED <<lockVars, dbVars, hpVars, modVars, whVars, sendVars, bcVars, trollVars, btnVars, cmdVars, scoreVars, parseVars, qVars, tallyVars, fileVars, updVars>>
  \/ (\E g \in ListenerGuilds, channel \in {"text", "unresolvable"} :
        ListenersResolve(g, channel, TRUE))
       /\ UNCHANGED <<lockVars, dbVars, hpVars, modVars, whVars, sendVars, bcVars, trollVars, btnVars, cmdVars, scoreVars, parseVars, qVars, tallyVars, fileVars, updVars>>
  \/ ListenersCollected
       /\ UNCHANGED <<lockVars, dbVars, hpVars, modVars, whVars, sendVars, bcVars, trollVars, btnVars, cmdVars, scoreVars, parseVars, qVars, tallyVars, fileVars, updVars>>
  \/ BroadcastListeners
       /\ UNCHANGED <<lockVars, dbVars, hpVars, modVars, regVars, whVars, sendVars, trollVars, btnVars, cmdVars, scoreVars, parseVars, qVars, tallyVars, fileVars, updVars>>
  \/ BroadcastAdminSend
       /\ UNCHANGED <<lockVars, dbVars, hpVars, modVars, regVars, whVars, sendVars, trollVars, btnVars, cmdVars, scoreVars, parseVars, qVars, tallyVars, fileVars, updVars>>
  \/ (\E ok \in BOOLEAN : BroadcastAdminResult(ok))
       /\ UNCHANGED <<lockVars, dbVars, hpVars, modVars, regVars, whVars, sendVars, trollVars, btnVars, cmdVars, scoreVars, parseVars, qVars, tallyVars, fileVars, updVars>>
  \/ BroadcastNotify
       /\ UNCHANGED <<lockVars, dbVars, hpVars, modVars, regVars, whVars, sendVars, trollVars, btnVars, cmdVars, scoreVars, parseVars, qVars, tallyVars, fileVars, updVars>>
  \/ (\E ok \in BOOLEAN : BroadcastNotifyResult(ok))
       /\ UNCHANGED <<lockVars, dbVars, hpVars, modVars, regVars, whVars, sendVars, trollVars, btnVars, cmdVars, scoreVars, parseVars, qVars, tallyVars, fileVars, updVars>>
  \/ (\E g \in ListenerGuilds, ok \in BOOLEAN : BroadcastSend(g, ok))
       /\ UNCHANGED <<lockVars, dbVars, hpVars, modVars, regVars, whVars, sendVars, trollVars, btnVars, cmdVars, scoreVars, parseVars, qVars, tallyVars, fileVars, updVars>>
  \/ (\E g \in ListenerGuilds : BroadcastModerateStart(g))
       /\ UNCHANGED <<lockVars, dbVars, hpVars, regVars, whVars, sendVars, trollVars, btnVars, cmdVars, scoreVars, parseVars, qVars, tallyVars, fileVars, updVars>>
  \/ /\ mfor # None
     /\ \E roles \in {{}, {"staff"}} : ModerateLookup(mfor \in bIn.members, roles, TRUE)
     /\ UNCHANGED <<lockVars, dbVars, hpVars, regVars, whVars, sendVars, bcVars, trollVars, btnVars, cmdVars, scoreVars, parseVars, qVars, tallyVars, fileVars, updVars>>
  \/ /\ mfor # None
     /\ \E mutOk \in BOOLEAN : ModerateAct(mutOk, TRUE, TRUE)
     /\ UNCHANGED <<lockVars, dbVars, hpVars, regVars, whVars, sendVars, bcVars, trollVars, btnVars, cmdVars, scoreVars, parseVars, qVars, tallyVars, fileVars, updVars>>
  \/ (mpc = "done" /\ BroadcastModerateEnd)
       /\ UNCHANGED <<lockVars, dbVars, hpVars, regVars, whVars, sendVars, trollVars, btnVars, cmdVars, scoreVars, parseVars, qVars, tallyVars, fileVars, updVars>>
  \/ (\E g \in ListenerGuilds : BroadcastWebhooksStart(g))
       /\ UNCHANGED <<lockVars, dbVars, hpVars, modVars, regVars, sendVars, trollVars, btnVars, cmdVars, scoreVars, parseVars, qVars, tallyVars, fileVars, updVars>>
  \/ /\ wfor # None
     /\ \E queryOk \in BOOLEAN : WebhooksFetch(queryOk)
     /\ UNCHANGED <<lockVars, dbVars, hpVars, modVars, regVars, sendVars, bcVars, trollVars, btnVars, cmdVars, scoreVars, parseVars, qVars, tallyVars, fileVars, updVars>>
  \/ (wfor # None /\ WebhooksResolve)
       /\ UNCHANGED <<lockVars, dbVars, hpVars, modVars, regVars, sendVars, bcVars, trollVars, btnVars, cmdVars, scoreVars, parseVars, qVars, tallyVars, fileVars, updVars>>
  \/ /\ wfor # None
     /\ \E w \in WebhookRows :
          WebhooksExecute(w, TRUE) /\ wtotal' = [wtotal EXCEPT ![w] = @ + 1]
     /\ UNCHANGED <<lockVars, dbVars, hpVars, modVars, regVars, sendVars, bcVars, trollVars, btnVars, cmdVars, scoreVars, parseVars, qVars, fileVars, updVars>>
  \/ (wfor # None /\ WebhooksExecuted)
       /\ UNCHANGED <<lockVars, dbVars, hpVars, modVars, regVars, sendVars, bcVars, trollVars, btnVars, cmdVars, scoreVars, parseVars, qVars, tallyVars, fileVars, updVars>>
  \/ (wpc = "done" /\ BroadcastWebhooksEnd)
       /\ UNCHANGED <<lockVars, dbVars, hpVars, modVars, regVars, sendVars, trollVars, btnVars, cmdVars, scoreVars, parseVars, qVars, tallyVars, fileVars, updVars>>
  \/ BroadcastJoined
       /\ UNCHANGED <<lockVars, dbVars, hpVars, modVars, regVars, whVars, sendVars, trollVars, btnVars, cmdVars, scoreVars, parseVars, qVars, tallyVars, fileVars, updVars>>
  \/ (BroadcastReturn /\ wtotal' = NoExecutions)
       /\ UNCHANGED <<lockVars, dbVars, hpVars, modVars, whVars, sendVars, trollVars, btnVars, cmdVars, scoreVars, parseVars, qVars, fileVars, updVars>>

SpecBroadcast == InitAll /\ [][NextBroadcast]_vars

\* Calls of timeout_honeypot_trolls over every list of evicted messages and
\* every configuration of their guilds.
NextTrolls ==
  \/ /\ tpc = "idle"
     /\ \E messages \in Evicted, rows \in [TrollGuilds -> ConfigRows] :
          TrollsStart(messages, rows)
     /\ UNCHANGED <<lockVars, dbVars, hpVars, modVars, regVars, whVars, sendVars, bcVars, btnVars, cmdVars, scoreVars, parseVars, qVars, tallyVars, fileVars, updVars>>
  \/ (\E failed \in SUBSET TrollGuilds : TrollsConfigs(failed))
       /\ UNCHANGED <<lockVars, dbVars, hpVars, modVars, regVars, whVars, sendVars, bcVars, btnVars, cmdVars, scoreVars, parseVars, qVars, tallyVars, fileVars, updVars>>
  \/ (\E memberOk \in BOOLEAN, timeoutOk \in BOOLEAN, sendOk \in BOOLEAN :
        TrollsMessage(memberOk, timeoutOk, sendOk))
       /\ UNCHANGED <<lockVars, dbVars, hpVars, modVars, regVars, whVars, sendVars, bcVars, btnVars, cmdVars, scoreVars, parseVars, qVars, tallyVars, fileVars, updVars>>
  \/ TrollsLooped
       /\ UNCHANGED <<lockVars, dbVars, hpVars, modVars, regVars, whVars, sendVars, bcVars, btnVars, cmdVars, scoreVars, parseVars, qVars, tallyVars, fileVars, updVars>>
  \/ TrollsReturn
       /\ UNCHANGED <<lockVars, dbVars, hpVars, modVars, regVars, whVars, sendVars, bcVars, btnVars, cmdVars, scoreVars, parseVars, qVars, tallyVars, fileVars, updVars>>

SpecTrolls == InitAll /\ [][NextTrolls]_vars

\* Clicks on the buttons of a message, handled side by side.
NextButtons ==
  \/ (\E embeds \in InteractionEmbeds : ButtonsPost(embeds))
       /\ UNCHANGED <<lockVars, dbVars, hpVars, modVars, regVars, whVars, sendVars, bcVars, trollVars, cmdVars, scoreVars, parseVars, qVars, tallyVars, fileVars, updVars>>
  \/ (\E c \in Clicks, custom_id \in CustomIds, permissions \in SUBSET Permissions :
        ButtonClick(c, custom_id, permissions))
       /\ UNCHANGED <<lockVars, dbVars, hpVars, modVars, regVars, whVars, sendVars, bcVars, trollVars, cmdVars, scoreVars, parseVars, qVars, tallyVars, fileVars, updVars>>
  \/ (\E c \in Clicks, memberOk \in BOOLEAN, cacheOk \in BOOLEAN, permissionsOk \in BOOLEAN :
        ButtonPermission(c, memberOk, cacheOk, permissionsOk))
       /\ UNCHANGED <<lockVars, dbVars, hpVars, modVars, regVars, whVars, sendVars, bcVars, trollVars, cmdVars, scoreVars, parseVars, qVars, tallyVars, fileVars, updVars>>
  \/ (\E c \in Clicks, ok \in BOOLEAN : ButtonTarget(c, ok))
       /\ UNCHANGED <<lockVars, dbVars, hpVars, modVars, regVars, whVars, sendVars, bcVars, trollVars, cmdVars, scoreVars, parseVars, qVars, tallyVars, fileVars, updVars>>
  \/ (\E c \in Clicks, logChannelOk \in BOOLEAN, requestOk \in BOOLEAN, sendOk \in BOOLEAN :
        ButtonModerate(c, logChannelOk, requestOk, sendOk))
       /\ UNCHANGED <<lockVars, dbVars, hpVars, modVars, regVars, whVars, sendVars, bcVars, trollVars, cmdVars, scoreVars, parseVars, qVars, tallyVars, fileVars, updVars>>
  \/ (\E c \in Clicks, ok \in BOOLEAN : ButtonRemove(c, ok))
       /\ UNCHANGED <<lockVars, dbVars, hpVars, modVars, regVars, whVars, sendVars, bcVars, trollVars, cmdVars, scoreVars, parseVars, qVars, tallyVars, fileVars, updVars>>

SpecButtons == InitAll /\ [][NextButtons]_vars

\* The user commands of the admins, one after the other.
NextCommands ==
  \/ (\E u \in WhitelistUsers, guild_ids \in (SUBSET ConfigGuilds) \ {{}},
         executed \in SUBSET ConfigGuilds : UserAdd(u, guild_ids, executed))
       /\ UNCHANGED <<lockVars, dbVars, hpVars, modVars, regVars, whVars, sendVars, bcVars, trollVars, btnVars, scoreVars, parseVars, qVars, tallyVars, fileVars, updVars>>
  \/ (\E u \in WhitelistUsers, updated_ids \in (SUBSET ConfigGuilds) \ {{}},
         executed \in SUBSET ConfigGuilds : UserUpdate(u, updated_ids, executed))
       /\ UNCHANGED <<lockVars, dbVars, hpVars, modVars, regVars, whVars, sendVars, bcVars, trollVars, btnVars, scoreVars, parseVars, qVars, tallyVars, fileVars, updVars>>
  \/ (\E u \in WhitelistUsers, executed \in SUBSET ConfigGuilds : UserRemove(u, executed))
       /\ UNCHANGED <<lockVars, dbVars, hpVars, modVars, regVars, whVars, sendVars, bcVars, trollVars, btnVars, scoreVars, parseVars, qVars, tallyVars, fileVars, updVars>>

SpecCommands == InitAll /\ [][NextCommands]_vars

\* Calls of create_or_increase_scoreboards side by side.
NextScores ==
  \/ (\E t \in ScoreTasks, c \in Conns, ok \in BOOLEAN : ScoresBegin(t, c, ok))
       /\ UNCHANGED <<lockVars, dbVars, hpVars, modVars, regVars, whVars, sendVars, bcVars, trollVars, btnVars, cmdVars, parseVars, qVars, tallyVars, fileVars, updVars>>
  \/ (\E t \in ScoreTasks, c \in Conns, ok \in BOOLEAN : ScoresUser(t, c, ok))
       /\ UNCHANGED <<lockVars, dbVars, hpVars, modVars, regVars, whVars, sendVars, bcVars, trollVars, btnVars, cmdVars, parseVars, qVars, tallyVars, fileVars, updVars>>
  \/ (\E t \in ScoreTasks, c \in Conns, ok \in BOOLEAN : ScoresGuild(t, c, ok))
       /\ UNCHANGED <<lockVars, dbVars, hpVars, modVars, regVars, whVars, sendVars, bcVars, trollVars, btnVars, cmdVars, parseVars, qVars, tallyVars, fileVars, updVars>>
  \/ (\E t \in ScoreTasks, c \in Conns, ok \in BOOLEAN : ScoresEnd(t, c, ok))
       /\ UNCHANGED <<lockVars, dbVars, hpVars, modVars, regVars, whVars, sendVars, bcVars, trollVars, btnVars, cmdVars, parseVars, qVars, tallyVars, fileVars, updVars>>

SpecScores == InitAll /\ [][NextScores]_vars

\* Calls of parse_snowflake.
NextParse ==
  \/ (\E snowflake \in SnowflakeStrings : ParseCall(snowflake))
       /\ UNCHANGED <<lockVars, dbVars, hpVars, modVars, regVars, whVars, sendVars, bcVars, trollVars, btnVars, cmdVars, scoreVars, qVars, tallyVars, fileVars, updVars>>
  \/ ParseReturn
       /\ UNCHANGED <<lockVars, dbVars, hpVars, modVars, regVars, whVars, sendVars, bcVars, trollVars, btnVars, cmdVars, scoreVars, qVars, tallyVars, fileVars, updVars>>

SpecParse == InitAll /\ [][NextParse]_vars

\* Calls of FileManager::save over file names, sizes around the limit and
\* the outcomes of the download and of the write.
NextFiles ==
  \/ (\E filename \in FileNames, size \in FileSizes, user_id \in FileUsers,
         downloadOk \in BOOLEAN, writeOk \in BOOLEAN :
        SaveCall(filename, size, user_id, downloadOk, writeOk))
       /\ UNCHANGED <<lockVars, dbVars, hpVars, modVars, regVars, whVars, sendVars, bcVars, trollVars, btnVars, cmdVars, scoreVars, parseVars, qVars, tallyVars, updVars>>
  \/ SaveReturn /\ UNCHANGED <<lockVars, dbVars, hpVars, modVars, regVars, whVars, sendVars, bcVars, trollVars, btnVars, cmdVars, scoreVars, parseVars, qVars, tallyVars, updVars>>

SpecFiles == InitAll /\ [][NextFiles]_vars

\* Two config update commands of one guild side by side.
NextUpdates ==
  \/ (\E c \in Updaters, options \in UpdateOptions : ConfigUpdateStart(c, options))
       /\ UNCHANGED <<lockVars, dbVars, hpVars, modVars, regVars, whVars, sendVars, bcVars, trollVars, btnVars, cmdVars, scoreVars, parseVars, qVars, tallyVars, fileVars>>
  \/ (\E c \in Updaters, ok \in BOOLEAN : ConfigUpdateSelect(c, ok))
       /\ UNCHANGED <<lockVars, dbVars, hpVars, modVars, regVars, whVars, sendVars, bcVars, trollVars, btnVars, cmdVars, scoreVars, parseVars, qVars, tallyVars, fileVars>>
  \/ (\E c \in Updaters, ok \in BOOLEAN : ConfigUpdateWrite(c, ok))
       /\ UNCHANGED <<lockVars, dbVars, hpVars, modVars, regVars, whVars, sendVars, bcVars, trollVars, btnVars, cmdVars, scoreVars, parseVars, qVars, tallyVars, fileVars>>
  \/ (\E c \in Updaters : ConfigUpdateReturn(c)) /\ UNCHANGED <<lockVars, dbVars, hpVars, modVars, regVars, whVars, sendVars, bcVars, trollVars, btnVars, cmdVars, scoreVars, parseVars, qVars, tallyVars, fileVars>>

SpecUpdates == InitAll /\ [][NextUpdates]_vars

\* Three calls of handle_message side by side.
NextQueue ==
  \/ (\E d \in QueueSteps : QueueTick(d)) /\ UNCHANGED <<lockVars, dbVars, hpVars, modVars, regVars, whVars, sendVars, bcVars, trollVars, btnVars, cmdVars, scoreVars, parseVars, tallyVars, fileVars, updVars>>
  \/ (\E h \in Handlers, p \in QueuePosts, ch \in Channels : QueueEnter(h, p[1], p[2], ch))
       /\ UNCHANGED <<lockVars, dbVars, hpVars, modVars, regVars, whVars, sendVars, bcVars, trollVars, btnVars, cmdVars, scoreVars, parseVars, tallyVars, fileVars, updVars>>
  \/ (\E h \in Handlers : QueueDelete(h)) /\ UNCHANGED <<lockVars, dbVars, hpVars, modVars, regVars, whVars, sendVars, bcVars, trollVars, btnVars, cmdVars, scoreVars, parseVars, tallyVars, fileVars, updVars>>
  \/ (\E h \in Handlers : QueueLock(h)) /\ UNCHANGED <<lockVars, dbVars, hpVars, modVars, regVars, whVars, sendVars, bcVars, trollVars, btnVars, cmdVars, scoreVars, parseVars, tallyVars, fileVars, updVars>>
  \/ (\E h \in Handlers : QueueEvict(h)) /\ UNCHANGED <<lockVars, dbVars, hpVars, modVars, regVars, whVars, sendVars, bcVars, trollVars, btnVars, cmdVars, scoreVars, parseVars, tallyVars, fileVars, updVars>>
  \/ (\E h \in Handlers : QueueScan(h)) /\ UNCHANGED <<lockVars, dbVars, hpVars, modVars, regVars, whVars, sendVars, bcVars, trollVars, btnVars, cmdVars, scoreVars, parseVars, tallyVars, fileVars, updVars>>
  \/ (\E h \in Handlers : QueuePush(h)) /\ UNCHANGED <<lockVars, dbVars, hpVars, modVars, regVars, whVars, sendVars, bcVars, trollVars, btnVars, cmdVars, scoreVars, parseVars, tallyVars, fileVars, updVars>>
  \/ (\E h \in Handlers : QueueDrop(h)) /\ UNCHANGED <<lockVars, dbVars, hpVars, modVars, regVars, whVars, sendVars, bcVars, trollVars, btnVars, cmdVars, scoreVars, parseVars, tallyVars, fileVars, updVars>>
  \/ (\E h \in Handlers : QueueJoin(h)) /\ UNCHANGED <<lockVars, dbVars, hpVars, modVars, regVars, whVars, sendVars, bcVars, trollVars, btnVars, cmdVars, scoreVars, parseVars, tallyVars, fileVars, updVars>>
  \/ QueueRefreshClear /\ UNCHANGED <<lockVars, dbVars, hpVars, modVars, regVars, whVars, sendVars, bcVars, trollVars, btnVars, cmdVars, scoreVars, parseVars, tallyVars, fileVars, updVars>>
  \/ QueueRefreshInsert /\ UNCHANGED <<lockVars, dbVars, hpVars, modVars, regVars, whVars, sendVars, bcVars, trollVars, btnVars, cmdVars, scoreVars, parseVars, tallyVars, fileVars, updVars>>

SpecQueue == InitAll /\ [][NextQueue]_vars

\* ------------------------------------------ claims: reports on one table
ActiveRows(u) == {i \in 1..Len(db) : db[i].user = u /\ db[i].active}

\* C2: in every reachable state, over manual reports, honeypot reports and
\* deactivations, every user id has at most one BadActor row with
\* is_active = true.
C2_AtMostOneActive == \A u \in Users : Cardinality(ActiveRows(u)) <= 1

\* The step in which report command t gets the answer of has_active_case.
ChecksActiveCase(t) == pc[t] = "held" /\ pc'[t] # "held"

\* C3: a report command runs its active-case check only when no other report
\* command for the same user is between its own check and the end of its
\* confirm/create/broadcast sequence, and a command that checks while the user
\* has an active BadActor is rejected with the "already has an active case"
\* reply and ends without creating or broadcasting.
C3_SecondReportRejected ==
  [][\A t \in Reporters :
       ChecksActiveCase(t) =>
         /\ \A o \in Reporters \ {t} : target[o] = target[t] => ~Holds(o)
         /\ ActiveRows(target[t]) # {} =>
              /\ reply'[t] = "active_case"
              /\ pc'[t] = "exit"
              /\ db' = db /\ bcast' = bcast]_vars

\* ---------------------------------------------- claims: the honeypot queue
Front(q) == SubSeq(q, 1, Len(q) - 1)
Matching(q, new_msg) ==
  {i \in 1..Len(q) : q[i].user_id = new_msg.user_id /\ q[i].content = new_msg.content}

\* What the specification says should_report answers: at least 3 distinct
\* channels over the matching entries and the new message, one of those
\* messages being a honeypot message.
Flagged(q, new_msg) ==
  /\ Cardinality({q[i].channel_id : i \in Matching(q, new_msg)} \cup {new_msg.channel_id}) >= 3
  /\ new_msg.is_in_honeypot \/ \E i \in Matching(q, new_msg) : q[i].is_in_honeypot

\* C6: should_report(queue, new) is true exactly when the matching entries of
\* the post-eviction queue and the new message cover at least 3 distinct
\* channels and one of them is a honeypot-channel message. (The last entry of
\* the queue is the message handled last, the entries before it the queue it
\* was scanned against.)
C6_ShouldReportExact ==
  queue # <<>> => (reported <=> Flagged(Front(queue), queue[Len(queue)]))

\* The step of handle_message that holds the queue lock.
Handles == nextMsg' = nextMsg + 1

\* C7: after remove_old_messages the queue holds exactly the entries younger
\* than 60 seconds (and then the new message), the returned list holds exactly
\* the removed honeypot-channel entries, and no entry is ever returned twice.
C7_Eviction ==
  /\ [](\A i \in 1..MaxMsgs : evictions[i] <= 1)
  /\ [][Handles =>
          /\ Front(queue') = SelectSeq(queue, LAMBDA m : clock - m.timestamp < 60)
          /\ removed' = SelectSeq(queue, LAMBDA m : ~(clock - m.timestamp < 60) /\ m.is_in_honeypot)]_vars

\* A honeypot entry and a plain one have left the window and were sorted apart
\* while a younger entry stayed.
C7_Witness ==
  /\ Len(removed) = 1
  /\ \E i \in 1..MaxMsgs : evictions[i] = 1
  /\ nextMsg - Len(queue) >= 2
  /\ Len(queue) >= 2

\* ------------------------------------------- claims: the moderation engine
\* The level the configuration holds for a category.
LevelFor(actor_type, server_config) ==
  CASE actor_type = "Spam" -> server_config.spam_action_level
    [] actor_type = "Impersonation" -> server_config.impersonation_action_level
    [] actor_type = "Bigotry" -> server_config.bigotry_action_level
    [] actor_type = "Honeypot" -> server_config.honeypot_action_level

\* C8: the resolved level is a function of (broadcast_type, actor_type,
\* server_config) alone: Notify for Deactivate, AddScreenshot,
\* ReplaceScreenshot and UpdateExplanation whatever the configuration, and the
\* configuration's level of the bad actor's category for Report and Honeypot.
C8_ModerationAction ==
  mpc # "idle" =>
    action_level =
      IF modIn.broadcast_type \in {"Deactivate", "AddScreenshot", "ReplaceScreenshot", "UpdateExplanation"}
        THEN "Notify"
        ELSE LevelFor(modIn.actor_type, modIn.server_config)

\* A Honeypot broadcast resolved to the honeypot level while the other
\* categories are configured differently.
C8_Witness ==
  /\ mpc = "lookup"
  /\ modIn.broadcast_type = "Honeypot" /\ modIn.actor_type = "Honeypot"
  /\ action_level = "Kick"
  /\ modIn.server_config.spam_action_level = "Ban"
  /\ modIn.server_config.impersonation_action_level = "Timeout"
  /\ modIn.server_config.bigotry_action_level = "SoftBan"

\* A member's roles that are neither @everyone nor ignored.
Protecting == world.roles \ ({"@everyone"} \cup modIn.server_config.ignored_roles)

\* C9: when moderate is done with a target that is a member of the guild, no
\* timeout, kick, soft-ban or ban was made if the member has a role other than
\* @everyone that is not ignored, and the call of the resolved level was made
\* if it has none.
C9_RoleGating ==
  (mpc = "done" /\ world.is_member) =>
    enforced = IF Protecting # {} THEN "none" ELSE CallOf(action_level)

\* {type} and {id} replaced in a stored reason.
RECURSIVE Substituted(_, _, _)
Substituted(template, actor_type, id) ==
  IF template = <<>> THEN ""
  ELSE LET piece == Head(template)
           text == CASE piece = "{type}" -> Display(actor_type)
                     [] piece = "{id}" -> ToString(id)
                     [] OTHER -> piece
       IN text \o Substituted(Tail(template), actor_type, id)

\* C10: an automatic ban carries the guild's stored ban reason with {id} and
\* {type} substituted when there is one, and "Bad Actor {type} ({id})"
\* otherwise: "Violation: spam #42" and "Bad Actor spam (42)" for Spam, 42.
C10_BanReason ==
  (mpc = "done" /\ enforced = "ban") =>
    reason = IF modIn.server_config.ban_reason = NoReason
               THEN "Bad Actor " \o Display(modIn.actor_type) \o " (" \o ToString(modIn.id) \o ")"
               ELSE Substituted(modIn.server_config.ban_reason, modIn.actor_type, modIn.id)

\* The requests of the enforcement action of a level.
ActionOf(level) ==
  CASE level = "Timeout" -> <<"timeout">>
    [] level = "Kick" -> <<"kick">>
    [] level = "SoftBan" -> <<"ban", "unban">>
    [] level = "Ban" -> <<"ban">>
    [] OTHER -> <<>>

\* C19: when moderate is done, it made no request that changes the guild if
\* the resolved level is Notify; for a target that is no member it made the
\* ban if the level is Ban and otherwise nothing but the 'not a member'
\* message; and whatever it made is the start of the one action of the
\* resolved level (a soft ban being a ban followed by an unban), never a
\* second action or one of another level.
C19_OneEnforcement ==
  mpc = "done" =>
    /\ action_level = "Notify" => (calls = <<>> /\ informed = "none")
    /\ (~world.is_member /\ action_level = "Ban") => calls = <<"ban">>
    /\ (~world.is_member /\ action_level \notin {"Ban", "Notify"}) =>
         (calls = <<>> /\ informed = "not_member")
    /\ \/ calls = <<>>
       \/ /\ Len(calls) <= Len(ActionOf(action_level))
          /\ calls = SubSeq(ActionOf(action_level), 1, Len(calls))

\* A soft ban of a member without protecting roles, both requests made.
C19_Witness ==
  /\ mpc = "done"
  /\ action_level = "SoftBan"
  /\ world.is_member
  /\ calls = <<"ban", "unban">>

\* C20: when moderate is done and it made a request that changes the guild,
\* it sent a result message to the guild's log channel, whether the request
\* succeeded or failed, and a failed request or a failed message went to the
\* central logger.
C20_ResultPosted ==
  (mpc = "done" /\ calls # <<>>) =>
    /\ sent
    /\ (~mutated \/ ~posted) => central

\* ------------------------------------------- claims: the listener registry
\* The guilds whose row has a log channel id, whose channel resolves to a guild
\* text channel and whose hydration succeeded.
Eligible ==
  {g \in ListenerGuilds :
     /\ ltable[g] = "log_channel"
     /\ lfacts[g].channel = "text"
     /\ lfacts[g].hydrated}

\* C17: when the registry build ends, it has not failed on account of one
\* guild's row (only a failed query fails it), and the listeners are exactly
\* the guilds with a log channel id whose channel resolves to a guild text
\* channel and whose hydration succeeds; a malformed row excludes its guild
\* only. (A failed query ends the build before any guild is looked at; the
\* formula reads a build that ended with "err" without a malformed row as
\* such a failure.)
C17_ValidListeners ==
  lpc = "done" =>
    \/ registry = "ok" /\ listeners = Eligible
    \/ registry = "err" /\ \A g \in ListenerGuilds : ltable[g] # "malformed"

\* --------------------------------------------- claims: the webhook fan-out
\* C18: when a webhook fan-out whose query worked is over, every row of a live
\* webhook was executed exactly once, whatever the other rows are, and a row
\* whose URL gives no live webhook was not executed; no webhook is ever
\* executed twice in one fan-out.
C18_WebhookIsolation ==
  /\ \A w \in WebhookRows : wexec[w] <= 1
  /\ (wpc = "done" /\ wquery) =>
       \A w \in WebhookRows : wexec[w] = IF wtable[w] = "live_url" THEN 1 ELSE 0

\* ------------------------------------------ claims: the message to a listener
\* The lines of the text after the broadcast type's sentence.
Pings == {smessage.content[i] : i \in 2..Len(smessage.content)}
Cfg == sendIn.config.server_config

\* C15: the text of a built message is the broadcast type's sentence alone when
\* the listener's guild is the origin guild or the resolved level is above
\* Notify; otherwise it has the mention of the ping role exactly when one is
\* configured and, when ping_users is on, the mention of every user
\* whitelisted for the guild.
C15_Pings ==
  spc # "idle" =>
    IF sendIn.origin_guild_id = Cfg.guild_id \/ slevel # "Notify"
      THEN smessage.content = <<message(sendIn.broadcast_type)>>
      ELSE /\ smessage.content[1] = message(sendIn.broadcast_type)
           /\ Cfg.ping_role # None <=> ("<@&" \o ToString(Cfg.ping_role) \o ">") \in Pings
           /\ Cfg.ping_users =>
                \A u \in 1..sendIn.whitelisted : ("<@" \o ToString(u) \o ">") \in Pings

\* The labels of the buttons of the built message.
Labels == [i \in 1..Len(smessage.components) |-> smessage.components[i].label]

\* C16: the built message has the buttons Ban, Softban, Kick exactly when the
\* broadcast type is Report or Honeypot and the resolved level is Notify, the
\* one button Unban exactly when the type is Deactivate, and none otherwise.
C16_Buttons ==
  spc # "idle" =>
    Labels = IF sendIn.broadcast_type \in {"Report", "Honeypot"} /\ slevel = "Notify"
               THEN <<"Ban", "Softban", "Kick">>
             ELSE IF sendIn.broadcast_type = "Deactivate"
               THEN <<"Unban">>
               ELSE <<>>

\* A Report built for a guild that bans automatically: no buttons.
C16_Witness ==
  /\ spc = "send"
  /\ sendIn.broadcast_type = "Report"
  /\ slevel = "Ban"
  /\ smessage.components = <<>>

\* ------------------------------------------------- claims: the broadcast
\* The sub-tasks of a listener that have started.
Started(g) ==
  bfinished[g] \cup (IF mfor = g THEN {"moderate"} ELSE {})
               \cup (IF wfor = g THEN {"webhooks"} ELSE {})

\* The embed of a Report of the spam bad actor 42.
ReportEmbed == [id |-> 42, actor_type |-> "Spam", colour |-> "Red"]

\* The case of C11: a finished Report broadcast from guild 1 to the listeners
\* 1 (Notify) and 2 (Ban, the target no member) in which no request failed.
C11_Case ==
  /\ bpc = "done"
  /\ registry = "ok" /\ listeners = {1, 2}
  /\ bIn.broadcast_type = "Report" /\ bIn.actor_type = "Spam" /\ bIn.origin_guild_id = 1
  /\ bIn.levels[1] = "Notify" /\ bIn.levels[2] = "Ban"
  /\ 2 \notin bIn.members
  /\ bfailed = {}

\* C11: in that case the log channel of guild 1 got the embed with the buttons
\* Ban, Softban, Kick and a text without mentions, the target was banned from
\* guild 2, whose log channel got the embed without buttons and the ban
\* message, the admin channel got the same embed, and the target got the
\* direct message.
C11_EndToEnd ==
  C11_Case =>
    /\ blog[1] = {[content |-> <<"A bad actor has been reported.">>, embed |-> ReportEmbed,
                   files |-> <<>>,
                   components |-> <<[custom_id |-> "ban", label |-> "Ban"],
                                    [custom_id |-> "softban", label |-> "Softban"],
                                    [custom_id |-> "kick", label |-> "Kick"]>>]}
    /\ bbanned = {2}
    /\ blog[2] = {[content |-> <<"A bad actor has been reported.">>, embed |-> ReportEmbed,
                   files |-> <<>>, components |-> <<>>],
                  [content |-> <<"User {} was banned from your server!">>, embed |-> NoEmbed,
                   files |-> <<>>, components |-> <<>>]}
    /\ Cardinality(blog[AdminChannel]) = 1
    /\ \A m \in blog[AdminChannel] : m.embed = ReportEmbed
    /\ bdm = "done"

C11_Witness == C11_Case /\ 2 \in bbanned

\* C12: the direct message is only attempted once the send to the admin
\* server is over, and only for a Report or a Honeypot; a sub-task of a
\* listener only starts once the send to the admin server is over and the
\* direct message, attempted for a Report or a Honeypot, is over too.
C12_Ordering ==
  /\ bdm # "none" =>
       (badmin = "done" /\ bIn.broadcast_type \in {"Report", "Honeypot"})
  /\ (\E g \in ListenerGuilds : Started(g) # {}) =>
       /\ badmin = "done"
       /\ bdm = IF bIn.broadcast_type \in {"Report", "Honeypot"} THEN "done" ELSE "none"

\* A call of moderate runs after a failed send to the admin server and a
\* direct message.
C12_Witness ==
  /\ bpc = "fanout"
  /\ mfor # None
  /\ <<AdminChannel, "admin">> \in bfailed
  /\ bdm = "done"

\* C13: after a failed registry build nothing was sent to the admin server,
\* no direct message was attempted and no listener got a message, a
\* moderation or a webhook call; and a broadcast that ends after a failed
\* send to the admin server or a failed direct message has run every
\* sub-task of every listener.
C13_Failures ==
  /\ registry = "err" =>
       /\ badmin = "none" /\ bdm = "none"
       /\ blog = NoLogs /\ bbanned = {}
       /\ \A g \in ListenerGuilds : Started(g) = {}
       /\ mpc = "idle" /\ wpc = "idle"
  /\ (bpc = "done" /\ bfailed \cap {<<AdminChannel, "admin">>, <<AdminChannel, "dm">>} # {}) =>
       \A g \in listeners : bfinished[g] = Tasks

\* Both failed and both listeners were served; the ban of guild 2 was made.
C13_Witness ==
  /\ bpc = "done"
  /\ {<<AdminChannel, "admin">>, <<AdminChannel, "dm">>} \subseteq bfailed
  /\ listeners = {1, 2}
  /\ bbanned = {2}

\* C14: when broadcast is over after a fan-out, every sub-task of every
\* listener has finished, whichever of them failed; in particular the
\* sub-tasks next to a failed one and those of the other listeners.
C14_FanOut ==
  (bpc = "done" /\ registry = "ok") =>
    \A g \in listeners : bfinished[g] = Tasks /\ Started(g) = Tasks

\* A send, a moderation and a webhook call failed, and every sub-task of both
\* listeners finished.
C14_Witness ==
  /\ bpc = "done"
  /\ listeners = {1, 2}
  /\ {<<1, "send">>, <<2, "moderate">>, <<1, "webhooks">>} \subseteq bfailed
  /\ <<2, "send">> \notin bfailed
  /\ \A g \in listeners : bfinished[g] = Tasks

\* ------------------------------------------ claims: the lock, generations
\* C29: an entry of the lock map disappears only in a step in which the
\* destructor of the mutex whose generation id the entry stores finishes; a
\* destructor that finds the entry of a newer generation leaves it there.
C29_GenerationGuard ==
  [][\A u \in Users :
       (locks[u] # None /\ locks'[u] = None) =>
         \E t \in Callers :
           /\ pc[t] = "dtor" /\ pc'[t] = "idle"
           /\ target[t] = u /\ arc[t] = locks[u]]_vars

\* The destructor of an old generation is about to run while the map holds
\* the entry a later call put in its place.
C29_Witness ==
  \E t \in Callers :
    /\ pc[t] = "dtor"
    /\ ShardFree(target[t])
    /\ locks[target[t]] # None
    /\ locks[target[t]] # arc[t]

\* C30: no call of lock_user_id for a user without a map entry, and no
\* destructor, has to wait for a shard guard that a task suspended in
\* lock_owned().await for another user is holding.
C30_NoBlocking ==
  \A t \in Callers : \A w \in Callers \ {t} :
    ~ /\ pc[t] \in {"entry", "dtor"}
      /\ pc[w] = "waiting"
      /\ target[w] # target[t]
      /\ shard[ShardOf(target[t])] = w

\* ------------------------------------------ claims: the honeypot's report
\* C21: a honeypot handler whose active-case check runs while the user has an
\* active case ends there, creating and broadcasting nothing; and a step in
\* which a honeypot handler inserts a BadActor inserts one of type Honeypot
\* attributed to the bot and goes on to broadcast it.
C21_HoneypotReport ==
  [][\A h \in HpTasks :
       /\ (hpc[h] = "check" /\ hpc'[h] # "check" /\ ActiveRows(hp[h].user) # {}) =>
            (hpc'[h] = "idle" /\ db' = db /\ bcast' = bcast)
       /\ (hpc[h] = "create" /\ db' # db) =>
            /\ db'[Len(db')].type = "Honeypot"
            /\ db'[Len(db')].by = BotId
            /\ hpc'[h] = "broadcast"]_vars

\* ------------------------------------------ claims: the honeypot's timeouts
\* C22: when timeout_honeypot_trolls is over, every evicted honeypot message
\* whose guild has a nonzero honeypot timeout and a log channel has led to
\* exactly one timeout of the configured duration and to a result message in
\* the log channel; and no message ever has more than one timeout.
C22_TrollTimeouts ==
  /\ \A i \in 1..Len(ttimeouts) : Len(ttimeouts[i]) <= 1
  /\ tpc = "done" =>
       \A i \in 1..Len(tmsgs) :
         (/\ tworld[tmsgs[i]].present
          /\ tworld[tmsgs[i]].honeypot_timeout # 0
          /\ tworld[tmsgs[i]].log_channel = "text") =>
           /\ ttimeouts[i] = <<tworld[tmsgs[i]].honeypot_timeout>>
           /\ tposts[i] = 1

\* ------------------------------------------ claims: the moderation buttons
\* The field names of the first embed are the six names, each once.
ExactlyTheSix(embeds) ==
  /\ embeds # <<>>
  /\ Len(Head(embeds)) = 6
  /\ {Head(embeds)[i] : i \in 1..Len(Head(embeds))} =
       {"Report ID", "Active", "Type", "Explanation", "Server of Origin", "Last Updated By"}

\* C23: whenever the handler of a click made a moderation request, posted to
\* the log channel or edited the message, the field names of the message's
\* first embed are exactly the six broadcast-embed names, each present once.
C23_EmbedFingerprint ==
  \A c \in Clicks :
    (idid[c] # Nothing \/ ipc[c] \in {"member", "target", "moderate", "remove"}) =>
      ExactlyTheSix(imessage.embeds)

\* The permission a button needs.
Needed(custom_id) == IF custom_id = "kick" THEN "kick_members" ELSE "ban_members"

\* C24: the handler of a click makes a moderation request, posts to the log
\* channel or removes the buttons only if the clicking member's permissions
\* were resolved and hold ban_members for ban, softban and unban, kick_members
\* for kick; otherwise it does nothing of the three.
C24_PermissionGate ==
  \A c \in Clicks :
    (idid[c] # Nothing \/ ipc[c] \in {"target", "moderate", "remove"}) =>
      (iIn[c].resolved /\ Needed(iIn[c].custom_id) \in iIn[c].permissions)

\* A member with kick_members alone kicked through the button, and another
\* click on ban by a member without ban_members ended with nothing done.
C24_Witness ==
  \E c \in Clicks, d \in Clicks :
    /\ iIn[c].custom_id = "kick" /\ iIn[c].permissions = {"kick_members"}
    /\ idid[c].action = "kick" /\ idid[c].ok
    /\ iIn[d].custom_id = "ban" /\ iIn[d].permissions = {"kick_members"}
    /\ iIn[d].resolved /\ ipc[d] = "done" /\ idid[d] = Nothing

\* C25: of the clicks on one message at most one leads to a ban, softban,
\* kick or unban request.
C25_OneAction ==
  Cardinality({c \in Clicks : idid[c].action # "none"}) <= 1

\* -------------------------------------------- claims: the user commands
\* C26: after every user add, update and remove command a server_configs row
\* exists for a guild exactly if some whitelisted user lists the guild.
C26_ConfigIffWhitelisted ==
  \A g \in ConfigGuilds :
    g \in server_configs <=> \E u \in WhitelistUsers : g \in whitelist[u]

\* ---------------------------------------------- claims: the scoreboards
\* C27: the calls of create_or_increase_scoreboards are atomic: the committed
\* scores of the reporter and of the guild are equal in every state, and once
\* no call is running both are the number of calls that returned Ok.
C27_ScoresAtomic ==
  /\ user_scores = guild_scores
  /\ (\A t \in ScoreTasks : scpc[t] = "idle") =>
       (user_scores = returned_ok /\ guild_scores = returned_ok)

\* ------------------------------------------------ claims: parse_snowflake
\* The decimal string of a non-zero 64-bit unsigned integer.
DecimalString(str) ==
  /\ str # <<>>
  /\ \A i \in 1..Len(str) : IsDigit(str[i])
  /\ Head(str) # "0"
  /\ Len(str) < Len(U64Max) \/ (Len(str) = Len(U64Max) /\ ~Greater(str, U64Max))

\* C28 as stated: parse_snowflake returns Ok(n) for the decimal string of a
\* non-zero 64-bit unsigned integer n, and an error for every other string.
C28_SnowflakeStrict ==
  ppc = "parsed" =>
    IF DecimalString(psrc) THEN pres = [ok |-> TRUE, value |-> psrc] ELSE ~pres.ok

\* The string is the decimal string of a non-zero 64-bit unsigned integer,
\* or one with zeros or one "+" and zeros put in front of it.
SignedDecimalString(str) ==
  /\ str # <<>>
  /\ LET digits == IF Head(str) = "+" THEN Tail(str) ELSE str
     IN /\ \A i \in 1..Len(digits) : IsDigit(digits[i])
        /\ DecimalString(StripZeros(digits))

\* C28 amended: parse_snowflake returns Ok(n) for the decimal string of a
\* non-zero 64-bit unsigned integer n, also with zeros or with one "+" and
\* zeros in front of it, and an error for "0" and for every other string.
C28_Snowflake ==
  ppc = "parsed" =>
    /\ DecimalString(psrc) => pres = [ok |-> TRUE, value |-> psrc]
    /\ psrc = <<"0">> => ~pres.ok
    /\ pres.ok <=> SignedDecimalString(psrc)
    /\ pres.ok => (DecimalString(pres.value) /\ pres.value = StripZeros(pres.value))

\* The snowflake of the tests was parsed.
C28_Witness ==
  /\ ppc = "parsed"
  /\ psrc = <<"4", "7", "1", "0", "2", "6", "1", "8", "1", "2", "1", "1", "4", "2", "2", "7", "2", "1">>
  /\ pres = [ok |-> TRUE, value |-> psrc]

\* ------------------------------------------------------ claims: soft ban
\* C31: a soft ban leaves no lasting ban: when moderate's soft_ban has ended
\* and its ban request succeeded, its unban request succeeded too.
C31_SoftBanNoLastingBan ==
  (mpc = "done" /\ enforced = "softban" /\ calls = <<"ban", "unban">>) => mutated

\* ------------------------------------------- claims: the queue mutex
\* The calls inside the critical section.
InCriticalSection == {h \in Handlers : qpc[h] \in {"evict", "scan", "push", "drop"}}

\* C32: between a call's eviction and its push nothing but that call changes
\* the queue, at most one call is inside the critical section, and a call
\* holds the mutex neither while it deletes the message nor during the
\* BadActor creation, the broadcast and the timeouts.
C32_CriticalSection ==
  /\ [](Cardinality(InCriticalSection) <= 1)
  /\ [](\A h \in Handlers : qpc[h] \in {"idle", "delete", "lock", "join", "done"} => qowner # h)
  /\ [][\A h \in Handlers :
          (qpc[h] \in {"scan", "push"} /\ hqueue' # hqueue) =>
            (qpc[h] = "push" /\ qpc'[h] = "drop")]_vars

\* A call is about to push while another waits for the mutex and a third has
\* left the critical section.
C32_Witness ==
  \E h \in Handlers, w \in Handlers, j \in Handlers :
    /\ qpc[h] = "push" /\ qowner = h
    /\ qpc[w] = "lock"
    /\ qpc[j] = "join"
    /\ qremoved[h] # <<>>

\* ------------------------------------ claims: three posts, any interleaving
\* The three calls handled one user's identical content in three distinct
\* channels, one of them stored as a honeypot channel, and passed the critical
\* section less than 60 seconds apart.
ThreePosts ==
  /\ Len(qlog) = 3
  /\ \A i \in 1..3 : qlog[i].msg.user_id = qlog[1].msg.user_id
                     /\ qlog[i].msg.content = qlog[1].msg.content
  /\ Cardinality({qlog[i].msg.channel_id : i \in 1..3}) = 3
  /\ \E i \in 1..3 : qlog[i].msg.channel_id \in QueueStored
  /\ qlog[3].msg.timestamp - qlog[1].msg.timestamp < Window

\* C34: when one user posted identical content in three distinct channels, at
\* least one a honeypot channel, and the three calls passed the critical
\* section within 60 seconds, the call that entered it last computed
\* should_report = true, whatever the order of the calls.
C34_LastHandlerReports ==
  ThreePosts => qlog[3].should_report

\* ----------------------------------- claims: the honeypot channel set
\* C36: the in-memory set never loses a channel that is stored as a honeypot
\* channel before and after the step, so that a message in it is classified
\* as a honeypot message also while a refresh runs; and when no refresh is
\* running the set is exactly the stored non-null honeypot channel ids.
C36_ChannelSet ==
  /\ [](rpc = "idle" => honeypot_channels = StoredChannels(dbHoneypot))
  /\ [][\A ch \in Channels :
          (/\ ch \in honeypot_channels
           /\ ch \in StoredChannels(dbHoneypot)
           /\ ch \in StoredChannels(dbHoneypot')) => ch \in honeypot_channels']_vars

Loaded == {g \in listeners : <<g, "webhooks">> \notin bfailed}

Accepted(attachment) ==
  /\ get_file_extension(attachment.filename) \in {Jpeg, Jpg, Png}
  /\ attachment.size < MaxFileSize

\* C37: a call of save for an attachment with the extension jpeg, jpg or png
\* and less than 5,000,000 bytes whose download and write work returns the
\* file name and has written that file; a call for any other attachment
\* returns an error and writes nothing.
C37_SaveAccepts ==
  fpc = "done" =>
    IF Accepted(fIn)
      THEN (fIn.downloadOk /\ fIn.writeOk) =>
             (fres.ok /\ fres.file_name \in files)
      ELSE ~fres.ok /\ files = {}

\* ------------------------------------------- claims: the config update
\* C38: the step in which a command writes the row changes no field whose
\* option the command was not given, the honeypot timeout included; a
\* command given a ban reason of more than 500 characters or with unbalanced
\* braces, or a log channel that is no text channel, never reads or writes
\* the row.
C38_OnlySupplied ==
  [][\A c \in Updaters :
       /\ (upc[c] = "update" /\ upc'[c] = "done") =>
            \A f \in DOMAIN crow : crow'[f] # crow[f] => uIn[c][f] # Omitted
       /\ (upc[c] = "idle" /\ upc'[c] = "select") =>
            /\ uIn'[c].log_channel # Omitted => uIn'[c].log_channel[1].kind = "Text"
            /\ uIn'[c].ban_reason # Omitted =>
                 /\ reason_len(uIn'[c].ban_reason[1]) <= MaxReasonLen
                 /\ check_ban_reason(uIn'[c].ban_reason[1])
       /\ (upc[c] = "idle" /\ upc'[c] = "done") => crow' = crow]_vars

Broadcasts(g) == {m \in blog[g] : m.embed # NoEmbed}

====
